---- MODULE Spec2Model ----
(***************************************************************************)
(* Model of PortfolioApp ("Портфолио исследователя.py"): the relational    *)
(* store (entries, achievements, user_achievements, competencies,          *)
(* entry_competencies, goals), the handlers that write it and the dialogs  *)
(* and text panels they produce.                                           *)
(*                                                                         *)
(* Conventions.  Texts are sequences of one-character strings, so that     *)
(* split / rstrip / comparison act on characters.  Cyrillic literals of    *)
(* the source are written with ASCII names (the source literal is given    *)
(* beside each).  A description text is kept as its CHAR_LENGTH, the only  *)
(* thing the program reads of it.  Levels with one decimal are kept in     *)
(* tenths (45 is 4.5).                                                     *)
(***************************************************************************)
EXTENDS Integers, Sequences, FiniteSets, TLC

\* ---------------------------------------------------------------- bounds
\* rows ever inserted into entries (the SERIAL id never restarts)
MaxEntries == 3
\* rows ever inserted into entries while the goals are examined
MaxGraded == 2
\* rows held by goals at a time
MaxGoals == 2
\* load_competencies runs after the one made at construction
MaxLoads == 1
\* entries saved while the competency levels are examined
MaxHistory == 21
\* of these, the first ones vary in competency and level
MaxVaried == 2
\* runs of load_competencies, those made by a new start of the application
\* included, while the starts are examined
MaxStarts == 2

\* ------------------------------------------------------------- constants
\* a nullable value (a column, a fetchone() result) is NULL or Some(v)
NULL == <<>>
Some(v) == << v >>
Value(o) == o[1]

\* user_id = 1 in check_achievements
USER_ID == 1

\* "if total_chars > 5000"
WORDSMITH_CHARS == 5000

\* "if coauthored >= 3"
TEAM_PLAYER_MIN == 3

\* "if types_count >= 3"
VERSATILE_MIN == 3

\* "if year_count >= 3"
PRODUCTIVE_YEAR_MIN == 3

\* "elif len(selected_comps) > 3"
MAX_SELECTED == 3

\* "if len(keywords) > 5: keywords = keywords[:5]"
MAX_KEYWORDS == 5

\* self.entry_types: "Проект", "Публикация", "Конференция", "Практика", "Грант"
entry_types == {"Project", "Publication", "Conference", "Practice", "Grant"}

\* the calendar years the clock and the date field range over
Years == {2025, 2026}

\* achievements_data of create_tables, in insertion order:
\* "Первый шаг", "Командный игрок", "Разносторонний", "Плодотворный год", "Словобог"
achievements_data ==
    << "FirstStep", "TeamPlayer", "Versatile", "ProductiveYear", "Wordsmith" >>

\* goal types of goal_type_combo: "Добавить записи", "Поднять компетенцию"
ADD_ENTRIES == "AddEntries"
RAISE_COMPETENCY == "RaiseCompetency"

\* ----------------------------------------------------------------- texts
SumOver(s) ==
    LET F[i \in 0..Len(s)] == IF i = 0 THEN 0 ELSE F[i - 1] + s[i]
    IN  F[Len(s)]

\* Python: ch in text
Contains(text, ch) == \E i \in DOMAIN text : text[i] = ch

\* Python: text.split(ch)[-1], the part after the last ch (all of text when
\* ch does not occur)
SplitLast(text, ch) ==
    LET at == { i \in DOMAIN text : text[i] = ch }
        from == IF at = {} THEN 0 ELSE CHOOSE i \in at : \A j \in at : j <= i
    IN  SubSeq(text, from + 1, Len(text))

\* Python: text.rstrip(ch), every trailing ch removed
RStrip(text, ch) ==
    LET keep == { i \in DOMAIN text : text[i] # ch }
        to == IF keep = {} THEN 0 ELSE CHOOSE i \in keep : \A j \in keep : j <= i
    IN  SubSeq(text, 1, to)

\* ---------------------------------------------------------- specialties
\* self.specialties_data (competencies.json): per specialty the list of
\* competencies.  "Программирование" is written PG, "Работа с БД" W-DB,
\* "Презентация результатов" PZ, "Научное письмо" NP, "Управление
\* проектами" UP; the third specialty of the file has a competency with
\* brackets in its name, "Программирование (X)".
specialties_data ==
    [ IS |-> << [name |-> <<"P", "G">>, category |-> "Technical"],
                [name |-> <<"W", " ", "D", "B">>, category |-> "Technical"],
                [name |-> <<"P", "Z">>, category |-> "Communication"],
                [name |-> <<"N", "P">>, category |-> "Communication"] >>,
      PM |-> << [name |-> <<"P", "G">>, category |-> "Technical"],
                [name |-> <<"U", "P">>, category |-> "Organizational"] >>,
      SE |-> << [name |-> <<"P", "G", " ", "(", "X", ")">>, category |-> "Technical"] >> ]

Specialties == DOMAIN specialties_data

\* list(self.specialties_data.keys())[0], the specialty loaded at construction
FirstSpecialty == "IS"

VARIABLES
    entries,             \* table entries: rows [id, type, year, description, coauthors]
    entries_seq,         \* last value of the SERIAL of entries.id
    achievements,        \* table achievements: rows [id, name]
    user_achievements,   \* table user_achievements: rows [user_id, achievement_id]
    competencies,        \* table competencies: rows [id, name, category]
    competencies_seq,    \* last value of the SERIAL of competencies.id
    entry_competencies,  \* table entry_competencies: rows [entry_id, competency_id, level]
    goals,               \* table goals in id order: rows [description, type, target, current, completed]
    app_competencies,    \* self.competencies
    comp_vars,           \* self.comp_vars: the competency id behind each checkbox
    goals_text,          \* the lines shown in self.goals_text
    current_year,        \* datetime.now().year
    loads,               \* load_competencies runs so far (after construction)
    last,                \* the latest handler run: what it called and showed
    keywords,            \* table keywords: rows [id, keyword]
    keywords_seq,        \* last value of the SERIAL of keywords.id
    entry_keywords,      \* table entry_keywords: rows [entry_id, keyword_id]
    comp_data,           \* the rows generate_recommendations was last given
    competencies_text,   \* what self.competencies_text shows
    recommendations_text,\* the messages self.recommendations_text shows
    tx_aborted           \* the connection's transaction is in the failed state

store == << entries, entries_seq, achievements, user_achievements, competencies,
            competencies_seq, entry_competencies, goals >>
\* the keyword tables
kw == << keywords, keywords_seq, entry_keywords >>
\* the competencies tab
panels == << comp_data, competencies_text, recommendations_text >>
others == << kw, panels, tx_aborted, comp_vars >>
vars == << entries, entries_seq, achievements, user_achievements, competencies,
           competencies_seq, entry_competencies, goals,
           app_competencies, goals_text, current_year, loads, last,
           keywords, keywords_seq, entry_keywords, comp_data, competencies_text,
           recommendations_text, tx_aborted, comp_vars >>

\* ------------------------------------------------------------- dialogs
\* messagebox.showinfo("Достижение", f"Получено достижение: {name}")
AchievementBox(name) == [box |-> "showinfo", title |-> "Achievement", about |-> name]
\* messagebox.showinfo("Успех", ...)
SuccessBox(what) == [box |-> "showinfo", title |-> "Success", about |-> what]
\* messagebox.showinfo("Информация", ...)
InfoBox(what) == [box |-> "showinfo", title |-> "Information", about |-> what]
\* messagebox.showwarning("Предупреждение", ...)
WarningBox(what) == [box |-> "showwarning", title |-> "Warning", about |-> what]

\* the statement of check_achievements at which the store fails in a run:
\* the SELECT of predicate `of`, or a statement of the unlock_achievement
\* call of predicate `of` (should that call be made)
NoFault == [in |-> "none", of |-> 0]
QueryFault(k) == [in |-> "query", of |-> k]
UnlockFault(k) == [in |-> "unlock", of |-> k]

\* What a handler run leaves to observe: its name, whether it ran
\* check_achievements, the names passed to unlock_achievement in call order,
\* the dialogs shown in order, the errors printed, whether an exception
\* left the handler, whether it ran update_goals and, if so, the goals
\* (by position) fetched as completed and written back as not completed
\* and, per goal, the competency names its AVG query was executed with; the
\* entry id check_achievements was called with and the statement at which
\* the store failed during it; self.current_specialty as load_competencies
\* set it.
Ran(op, evaluated, requested, shown, printed) ==
    [ op |-> op, evaluated |-> evaluated, requested |-> requested,
      shown |-> shown, printed |-> printed, raised |-> FALSE,
      refreshed |-> FALSE, reopened |-> {}, lookups |-> <<>>, entry_id |-> 0,
      fault |-> NoFault, specialty |-> "" ]

WithRefresh(ran, upd) ==
    [ran EXCEPT !.refreshed = TRUE, !.reopened = upd.reopened, !.lookups = upd.lookups]

\* ------------------------------------------------------ queries: entries
\* SELECT COUNT(*) FROM entries
CountEntries(es) == Len(es)

\* SELECT COUNT(*) FROM entries
\*   WHERE соавторы IS NOT NULL AND соавторы != '' AND соавторы != ' '
\* (TEXT comparison: no blank padding, so '  ' differs from ' ')
CountCoauthored(es) ==
    Len(SelectSeq(es, LAMBDA e : /\ e.coauthors # NULL
                                 /\ e.coauthors # Some(<<>>)
                                 /\ e.coauthors # Some(<<" ">>)))

\* SELECT COUNT(DISTINCT тип) FROM entries
CountDistinctTypes(es) ==
    LET firsts == { i \in DOMAIN es : \A j \in 1..(i - 1) : es[j].type # es[i].type }
    IN  Cardinality(firsts)

\* SELECT COUNT(*) FROM entries WHERE EXTRACT(YEAR FROM дата) = %s
CountInYear(es, year) == Len(SelectSeq(es, LAMBDA e : e.year = year))

\* SELECT SUM(CHAR_LENGTH(описание)) FROM entries WHERE описание IS NOT NULL
\* (NULL when no row qualifies)
SumCharLength(es) ==
    LET rows == SelectSeq(es, LAMBDA e : e.description # NULL)
    IN  IF rows = <<>> THEN NULL
        ELSE Some(SumOver([i \in DOMAIN rows |-> Value(rows[i].description)]))

\* ------------------------------------------------- unlock_achievement
\* SELECT id FROM achievements WHERE название = %s; fetchone()
AchievementRow(achs, name) ==
    LET hit == { i \in DOMAIN achs : achs[i].name = name }
    IN  IF hit = {} THEN NULL ELSE Some(achs[CHOOSE i \in hit : \A j \in hit : i <= j])

\* SELECT 1 FROM user_achievements WHERE user_id = %s AND achievement_id = %s
IsUnlocked(ua, user, aid) ==
    \E i \in DOMAIN ua : ua[i].user_id = user /\ ua[i].achievement_id = aid

\* mutant: the row is inserted without the SELECT 1 check (and without the
\* primary key that would refuse the second row)
unlock_achievement_unchecked(achs, ua, name, user) ==
    LET row == AchievementRow(achs, name)
    IN  IF row = NULL
        THEN [ua |-> ua, shown |-> <<>>, printed |-> <<"unlock">>]
        ELSE [ua |-> Append(ua, [user_id |-> user, achievement_id |-> Value(row).id]),
              shown |-> << AchievementBox(name) >>, printed |-> <<>>]

\* mutant: showinfo is called after the if, on every call
unlock_achievement_always_shows(achs, ua, name, user) ==
    LET row == AchievementRow(achs, name)
    IN  IF row = NULL
        THEN [ua |-> ua, shown |-> <<>>, printed |-> <<"unlock">>]
        ELSE IF IsUnlocked(ua, user, Value(row).id)
        THEN [ua |-> ua, shown |-> << AchievementBox(name) >>, printed |-> <<>>]
        ELSE [ua |-> Append(ua, [user_id |-> user, achievement_id |-> Value(row).id]),
              shown |-> << AchievementBox(name) >>, printed |-> <<>>]

\* unlock_achievement(achievement_name, user_id): the table afterwards, the
\* dialogs shown and the errors printed.  fetchone() of an absent name is
\* None, None[0] raises TypeError, and the except clause prints it.
unlock_achievement(achs, ua, name, user) ==
    LET row == AchievementRow(achs, name)
    IN  IF row = NULL
        THEN [ua |-> ua, shown |-> <<>>, printed |-> <<"unlock">>]
        ELSE IF IsUnlocked(ua, user, Value(row).id)
        THEN [ua |-> ua, shown |-> <<>>, printed |-> <<>>]
        ELSE [ua |-> Append(ua, [user_id |-> user, achievement_id |-> Value(row).id]),
              shown |-> << AchievementBox(name) >>, printed |-> <<>>]

\* -------------------------------------------------- check_achievements
\* mutant: "if count >= 1"
FirstStepDue_at_least_one(es) == CountEntries(es) >= 1

\* "if count == 1"
FirstStepDue(es) == CountEntries(es) = 1

\* "if coauthored >= 3"
TeamPlayerDue(es) == CountCoauthored(es) >= TEAM_PLAYER_MIN

\* mutant: COUNT(тип) in place of COUNT(DISTINCT тип)
VersatileDue_counts_rows(es) == CountEntries(es) >= VERSATILE_MIN

\* "if types_count >= 3"
VersatileDue(es) == CountDistinctTypes(es) >= VERSATILE_MIN

\* mutant: three entries in any one calendar year, as the catalog text
\* ("Три и более записи за один календарный год") reads
ProductiveYearDue_any_year(es, year) ==
    \E y \in { es[i].year : i \in DOMAIN es } : CountInYear(es, y) >= PRODUCTIVE_YEAR_MIN

\* "if year_count >= 3", year_count of current_year
ProductiveYearDue(es, year) == CountInYear(es, year) >= PRODUCTIVE_YEAR_MIN

\* mutant: "if total_chars >= 5000"
WordsmithDue_at_least(es) ==
    LET result == SumCharLength(es)
        total_chars == IF result # NULL THEN Value(result) ELSE 0
    IN  total_chars >= WORDSMITH_CHARS

\* "total_chars = result if result is not None else 0; if total_chars > 5000"
WordsmithDue(es) ==
    LET result == SumCharLength(es)
        total_chars == IF result # NULL THEN Value(result) ELSE 0
    IN  total_chars > WORDSMITH_CHARS

\* mutant: the five ifs chained with elif, so that the first hit ends the
\* evaluation
Requested_first_only(es, year) ==
    IF FirstStepDue(es) THEN <<"FirstStep">>
    ELSE IF TeamPlayerDue(es) THEN <<"TeamPlayer">>
    ELSE IF VersatileDue(es) THEN <<"Versatile">>
    ELSE IF ProductiveYearDue(es, year) THEN <<"ProductiveYear">>
    ELSE IF WordsmithDue(es) THEN <<"Wordsmith">>
    ELSE <<>>

\* the names check_achievements passes to unlock_achievement, in call order
Requested(es, year) ==
    (IF FirstStepDue(es) THEN <<"FirstStep">> ELSE <<>>)
    \o (IF TeamPlayerDue(es) THEN <<"TeamPlayer">> ELSE <<>>)
    \o (IF VersatileDue(es) THEN <<"Versatile">> ELSE <<>>)
    \o (IF ProductiveYearDue(es, year) THEN <<"ProductiveYear">> ELSE <<>>)
    \o (IF WordsmithDue(es) THEN <<"Wordsmith">> ELSE <<>>)

\* the unlock_achievement calls of one evaluation, one after the other
RECURSIVE UnlockEach(_, _, _, _)
UnlockEach(achs, ua, names, user) ==
    IF names = <<>>
    THEN [ua |-> ua, shown |-> <<>>, printed |-> <<>>]
    ELSE LET one == unlock_achievement(achs, ua, Head(names), user)
             rest == UnlockEach(achs, one.ua, Tail(names), user)
         IN  [ua |-> rest.ua, shown |-> one.shown \o rest.shown,
              printed |-> one.printed \o rest.printed]

\* ---------------------------------------------------------- update_goals
\* The means of levels 1..5 that lie halfway between two tenths, in
\* twentieths, for which round(float(avg), 1) gives the upper tenth: x.25 and
\* x.75 are exact in binary floating point and go to the even tenth, the
\* others go where the nearest double lies (2.95 is stored above 2.95).
HalvesUp == {21, 27, 31, 35, 37, 47, 49, 55, 57, 59,
             67, 69, 75, 77, 79, 83, 89, 93, 95, 99}

\* round(float(avg), 1) of avg = sum / n, in tenths
RoundTenths(sum, n) ==
    LET q == (10 * sum) \div n
        r == (10 * sum) % n
    IN  IF 2 * r < n THEN q
        ELSE IF 2 * r > n THEN q + 1
        ELSE IF (20 * sum) \div n \in HalvesUp THEN q + 1 ELSE q

\* mutant: SUM(ec.уровень) in place of AVG(ec.уровень)
LevelsOfName_sum(comps, ecs, comp_name) ==
    LET ids == { comps[i].id : i \in { j \in DOMAIN comps : comps[j].name = comp_name } }
        rows == SelectSeq(ecs, LAMBDA ec : ec.competency_id \in ids)
    IN  [sum |-> SumOver([i \in DOMAIN rows |-> rows[i].level]),
         n |-> IF rows = <<>> THEN 0 ELSE 1]

\* SELECT AVG(ec.уровень) FROM competencies c
\*   JOIN entry_competencies ec ON c.id = ec.competency_id WHERE c.название = %s
\* as [sum, n] of the joined rows (AVG is NULL when n = 0)
LevelsOfName(comps, ecs, comp_name) ==
    LET ids == { comps[i].id : i \in { j \in DOMAIN comps : comps[j].name = comp_name } }
        rows == SelectSeq(ecs, LAMBDA ec : ec.competency_id \in ids)
    IN  [sum |-> SumOver([i \in DOMAIN rows |-> rows[i].level]), n |-> Len(rows)]

\* mutant: rstrip(")") is left out
GoalCompName_keeps_bracket(description) ==
    IF Contains(description, "(") THEN SplitLast(description, "(") ELSE <<>>

\* comp_name = description.split("(")[-1].rstrip(")") if "(" in description else ""
GoalCompName(description) ==
    IF Contains(description, "(") THEN RStrip(SplitLast(description, "("), ")") ELSE <<>>

\* the names the AVG query of the loop body is executed with: none for a
\* "Добавить записи" goal and for an empty comp_name
GoalLookups(goal) ==
    IF goal.type = RAISE_COMPETENCY /\ GoalCompName(goal.description) # <<>>
    THEN << GoalCompName(goal.description) >>
    ELSE <<>>

\* mutant: a "Добавить записи" goal keeps the value fetched with the row
GoalCurrent_stored(goal, es, comps, ecs) ==
    IF goal.type = RAISE_COMPETENCY
    THEN LET comp_name == GoalCompName(goal.description)
         IN  IF comp_name # <<>>
             THEN LET avg == LevelsOfName(comps, ecs, comp_name)
                  IN  IF avg.n = 0 THEN 0 ELSE RoundTenths(avg.sum, avg.n)
             ELSE 0
    ELSE 10 * goal.current

\* the value of `current` after the if / elif of the loop body, in tenths
GoalCurrent(goal, es, comps, ecs) ==
    IF goal.type = ADD_ENTRIES
    THEN 10 * CountEntries(es)
    ELSE IF goal.type = RAISE_COMPETENCY
    THEN LET comp_name == GoalCompName(goal.description)
         IN  IF comp_name # <<>>
             THEN LET avg == LevelsOfName(comps, ecs, comp_name)
                  IN  IF avg.n = 0 THEN 0 ELSE RoundTenths(avg.sum, avg.n)
             ELSE 0
    ELSE 10 * goal.current

\* UPDATE goals SET текущее_значение = %s: the column is INTEGER, and the
\* assignment of a numeric literal rounds it, halves away from zero
StoredInteger(tenths) == (tenths + 5) \div 10

\* mutant: "if current > target"
GoalReached_strict(current, target) == current > 10 * target

\* "if current >= target"
GoalReached(current, target) == current >= 10 * target

\* mutant: завершено is only ever set to TRUE (the else branch writes nothing)
GoalRefreshed_sticky(goal, es, comps, ecs) ==
    LET current == GoalCurrent(goal, es, comps, ecs)
        reached == GoalReached(current, goal.target)
    IN  [ row |-> [goal EXCEPT !.current = StoredInteger(current),
                               !.completed = goal.completed \/ reached],
          line |-> [description |-> goal.description, current |-> current,
                    target |-> goal.target,
                    status |-> IF reached THEN "Done" ELSE "InProgress"] ]

\* the loop body for one goal: the row written back and the line displayed
GoalRefreshed(goal, es, comps, ecs) ==
    LET current == GoalCurrent(goal, es, comps, ecs)
        reached == GoalReached(current, goal.target)
    IN  [ row |-> [goal EXCEPT !.current = StoredInteger(current),
                               !.completed = reached],
          line |-> [description |-> goal.description, current |-> current,
                    target |-> goal.target,
                    status |-> IF reached THEN "Done" ELSE "InProgress"] ]

\* update_goals(): the goals table and the goals_text lines afterwards
update_goals(gs, es, comps, ecs) ==
    LET new == [i \in DOMAIN gs |-> GoalRefreshed(gs[i], es, comps, ecs)]
    IN  [ goals |-> [i \in DOMAIN gs |-> new[i].row],
          text |-> [i \in DOMAIN gs |-> new[i].line],
          lookups |-> [i \in DOMAIN gs |-> GoalLookups(gs[i])],
          reopened |-> { i \in DOMAIN gs : gs[i].completed /\ ~new[i].row.completed } ]

\* --------------------------------------------------- update_competencies
\* "Программирование", "БД" and "Презентация" as they occur in the names
PROGRAMMING == <<"P", "G">>
DATABASE == <<"D", "B">>
PRESENTATION == <<"P", "Z">>

\* token in name
IsInfix(token, name) ==
    \E i \in 1..(Len(name) - Len(token) + 1) : SubSeq(name, i, i + Len(token) - 1) = token

\* ORDER BY c.категория, c.название: Коммуникационные < Организационные <
\* Технические; Научное письмо < Презентация результатов < Программирование
\* < Работа с БД < Управление проектами
CategoryOrder == <<"Communication", "Organizational", "Technical">>
NameOrder == << <<"N", "P">>, <<"P", "Z">>, <<"P", "G">>,
                <<"P", "G", " ", "(", "X", ")">>, <<"W", " ", "D", "B">>,
                <<"U", "P">> >>

Position(seq, x) == CHOOSE i \in DOMAIN seq : seq[i] = x

\* row c sorts before row d (rows equal in both columns, which no load
\* produces, in id order)
SortsBefore(c, d) ==
    LET cc == Position(CategoryOrder, c.category)
        dc == Position(CategoryOrder, d.category)
        cn == Position(NameOrder, c.name)
        dn == Position(NameOrder, d.name)
    IN  \/ cc < dc
        \/ cc = dc /\ cn < dn
        \/ cc = dc /\ cn = dn /\ c.id < d.id

\* mutant: the level of the latest grade in place of AVG
LevelsOfId_latest(ecs, id) ==
    LET rows == SelectSeq(ecs, LAMBDA ec : ec.competency_id = id)
    IN  IF rows = <<>> THEN [sum |-> 0, n |-> 0]
        ELSE [sum |-> rows[Len(rows)].level, n |-> 1]

\* AVG(ec.уровень) of the rows LEFT JOINed to competency id, as [sum, n]
\* (NULL when n = 0)
LevelsOfId(ecs, id) ==
    LET rows == SelectSeq(ecs, LAMBDA ec : ec.competency_id = id)
    IN  [sum |-> SumOver([i \in DOMAIN rows |-> rows[i].level]), n |-> Len(rows)]

\* comp_data = self.cursor.fetchall() of the GROUP BY query
CompData(comps, ecs) ==
    LET rank(c) == Cardinality({ d \in DOMAIN comps : SortsBefore(comps[d], comps[c]) }) + 1
    IN  [k \in DOMAIN comps |->
            LET c == CHOOSE x \in DOMAIN comps : rank(x) = k
            IN  [id |-> comps[c].id, name |-> comps[c].name,
                 category |-> comps[c].category,
                 avg_level |-> LevelsOfId(ecs, comps[c].id)]]

\* level = round(float(avg_level or 0), 1), in tenths
RoundedLevel(avg_level) ==
    IF avg_level.n = 0 THEN 0 ELSE RoundTenths(avg_level.sum, avg_level.n)

\* "if level < 3 and level > 0"
IsWeakZone(level) == level < 30 /\ level > 0

\* mutant: "elif level <= 2"
Recommendation_inclusive(row) ==
    LET sum == row.avg_level.sum
        n == row.avg_level.n
        say(tier) == << [tier |-> tier, name |-> row.name] >>
    IN  IF n = 0 \/ sum = 0 THEN say("NotAssessed")
        ELSE IF sum <= 2 * n
        THEN IF IsInfix(PROGRAMMING, row.name) THEN say("CriticalProgramming")
             ELSE IF IsInfix(DATABASE, row.name) THEN say("CriticalDatabase")
             ELSE IF IsInfix(PRESENTATION, row.name) THEN say("CriticalPresentation")
             ELSE say("CriticalGeneric")
        ELSE IF sum < 3 * n THEN say("BelowAverage")
        ELSE IF 2 * sum >= 9 * n THEN say("Excellent")
        ELSE <<>>

\* mutant: "БД" in name tested before "Программирование" in name
Recommendation_database_first(row) ==
    LET sum == row.avg_level.sum
        n == row.avg_level.n
        say(tier) == << [tier |-> tier, name |-> row.name] >>
    IN  IF n = 0 \/ sum = 0 THEN say("NotAssessed")
        ELSE IF sum < 2 * n
        THEN IF IsInfix(DATABASE, row.name) THEN say("CriticalDatabase")
             ELSE IF IsInfix(PROGRAMMING, row.name) THEN say("CriticalProgramming")
             ELSE IF IsInfix(PRESENTATION, row.name) THEN say("CriticalPresentation")
             ELSE say("CriticalGeneric")
        ELSE IF sum < 3 * n THEN say("BelowAverage")
        ELSE IF 2 * sum >= 9 * n THEN say("Excellent")
        ELSE <<>>

\* the message generate_recommendations appends for one row, if any; the
\* tiers compare level = float(avg_level or 0), the mean itself
Recommendation(row) ==
    LET sum == row.avg_level.sum
        n == row.avg_level.n
        say(tier) == << [tier |-> tier, name |-> row.name] >>
    IN  IF n = 0 \/ sum = 0 THEN say("NotAssessed")
        ELSE IF sum < 2 * n
        THEN IF IsInfix(PROGRAMMING, row.name) THEN say("CriticalProgramming")
             ELSE IF IsInfix(DATABASE, row.name) THEN say("CriticalDatabase")
             ELSE IF IsInfix(PRESENTATION, row.name) THEN say("CriticalPresentation")
             ELSE say("CriticalGeneric")
        ELSE IF sum < 3 * n THEN say("BelowAverage")
        ELSE IF 2 * sum >= 9 * n THEN say("Excellent")
        ELSE <<>>

\* "Все компетенции развиты хорошо! Продолжайте в том же духе."
Fallback == [tier |-> "AllWell", name |-> <<>>]

RECURSIVE Recommendations(_)
Recommendations(data) ==
    IF data = <<>> THEN <<>>
    ELSE Recommendation(Head(data)) \o Recommendations(Tail(data))

\* mutant: the fallback is appended whenever no row is excellent
generate_recommendations_praises(data) ==
    LET recommendations == Recommendations(data)
    IN  IF \A i \in DOMAIN recommendations : recommendations[i].tier # "Excellent"
        THEN Append(recommendations, Fallback)
        ELSE recommendations

\* generate_recommendations(comp_data): the numbered messages of
\* recommendations_text
generate_recommendations(data) ==
    LET recommendations == Recommendations(data)
    IN  IF recommendations = <<>> THEN << Fallback >> ELSE recommendations

\* competencies_text: the level lines and the weak zones below them
LevelsText(data) ==
    LET lines == [i \in DOMAIN data |->
                    [name |-> data[i].name, category |-> data[i].category,
                     level |-> RoundedLevel(data[i].avg_level)]]
        weak == SelectSeq(lines, LAMBDA l : IsWeakZone(l.level))
    IN  [ kind |-> "levels", lines |-> lines,
          weak_zones |-> [i \in DOMAIN weak |-> [name |-> weak[i].name,
                                                 level |-> weak[i].level]] ]

\* "Сначала загрузите компетенции для специальности"
LoadFirstText == [kind |-> "load_first", lines |-> <<>>, weak_zones |-> <<>>]

\* update_competencies(): the three parts of the competencies tab afterwards
\* (old is what they were: without self.competencies nothing is fetched)
update_competencies(app_comps, comps, ecs, old) ==
    IF app_comps = <<>>
    THEN [comp_data |-> old.comp_data, competencies_text |-> LoadFirstText,
          recommendations_text |-> <<>>]
    ELSE LET data == CompData(comps, ecs)
         IN  [comp_data |-> data, competencies_text |-> LevelsText(data),
              recommendations_text |-> generate_recommendations(data)]

\* ------------------------------------------------------------------ Init
\* CREATE TABLE ... achievements; the INSERTs of achievements_data
SeededAchievements == [i \in DOMAIN achievements_data |-> [id |-> i, name |-> achievements_data[i]]]

\* the rows load_competencies inserts for a specialty, ids from the SERIAL
LoadedCompetencies(specialty, seq) ==
    LET competencies_list == specialties_data[specialty]
    IN  [i \in DOMAIN competencies_list |->
            [id |-> seq + i, name |-> competencies_list[i].name,
             category |-> competencies_list[i].category]]

\* create_competencies_widgets(): self.comp_vars, one (var, id) per competency
CompVars(app_comps) == [i \in DOMAIN app_comps |-> [id |-> app_comps[i].id]]

\* the competencies tab as create_competencies_tab leaves it: two empty texts
EmptyPanels == [comp_data |-> <<>>,
                competencies_text |-> [kind |-> "empty", lines |-> <<>>, weak_zones |-> <<>>],
                recommendations_text |-> <<>>]

\* PortfolioApp(root) on an empty database: create_tables seeds the catalog,
\* create_competencies_tab loads the first specialty, update_all_tabs runs.
Init ==
    /\ entries = <<>>
    /\ entries_seq = 0
    /\ achievements = SeededAchievements
    /\ user_achievements = <<>>
    /\ competencies = LoadedCompetencies(FirstSpecialty, 0)
    /\ competencies_seq = Len(specialties_data[FirstSpecialty])
    /\ entry_competencies = <<>>
    /\ goals = <<>>
    /\ app_competencies = LoadedCompetencies(FirstSpecialty, 0)
    /\ comp_vars = CompVars(LoadedCompetencies(FirstSpecialty, 0))
    /\ goals_text = <<>>
    /\ current_year = 2025
    /\ loads = 0
    /\ last = Ran("init", FALSE, <<>>, <<>>, <<>>)
    /\ keywords = <<>>
    /\ keywords_seq = 0
    /\ entry_keywords = <<>>
    /\ LET tab == update_competencies(LoadedCompetencies(FirstSpecialty, 0),
                                      LoadedCompetencies(FirstSpecialty, 0), <<>>,
                                      EmptyPanels)
       IN  /\ comp_data = tab.comp_data
           /\ competencies_text = tab.competencies_text
           /\ recommendations_text = tab.recommendations_text
    /\ tx_aborted = FALSE

\* -------------------------------------------------------------- failures
\* messagebox.showerror("Ошибка", ...)
ErrorBox(what) == [box |-> "showerror", title |-> "Error", about |-> what]

\* "Ошибка при загрузке компетенций: ..." in competencies_text
CompetenciesErrorText == [kind |-> "error", lines |-> <<>>, weak_zones |-> <<>>]

\* "Ошибка при обновлении целей: ..." in goals_text
GoalsErrorText == << [description |-> <<>>, current |-> 0, target |-> 0, status |-> "Error"] >>

\* the position of an achievement's predicate in check_achievements
PredicateIndex(name) == Position(achievements_data, name)

\* mutant: the evaluation first takes back the unlock records of the
\* achievements whose predicate does not hold
check_achievements_revokes(achs, ua, es, year, fault, aborted) ==
    LET all == Requested(es, year)
        held == SelectSeq(ua, LAMBDA r :
                    \E i \in DOMAIN all, k \in DOMAIN achs :
                       achs[k].name = all[i] /\ achs[k].id = r.achievement_id)
        done == UnlockEach(achs, held, all, USER_ID)
    IN  [ua |-> done.ua, requested |-> all, shown |-> done.shown,
         printed |-> done.printed, raised |-> FALSE, aborted |-> aborted]

\* check_achievements(entry_id) on a connection whose statements fail as
\* `fault` says (all of them when the transaction is already aborted).  A
\* failing SELECT of the method raises out of it; a failure inside
\* unlock_achievement is caught and printed there, and leaves the transaction
\* aborted, so that the next SELECT of the method raises.
check_achievements(achs, ua, es, year, fault, aborted) ==
    LET all == Requested(es, year)
        caught == /\ ~aborted /\ fault.in = "unlock"
                  /\ \E i \in DOMAIN all : PredicateIndex(all[i]) = fault.of
        stop == IF aborted THEN 1
                ELSE IF fault.in = "query" THEN fault.of
                ELSE IF caught THEN fault.of + 1
                ELSE Len(achievements_data) + 1
        names == SelectSeq(all, LAMBDA name : PredicateIndex(name) < stop)
        sound == SelectSeq(names, LAMBDA name : ~(caught /\ PredicateIndex(name) = fault.of))
        done == UnlockEach(achs, ua, sound, USER_ID)
        raised == stop <= Len(achievements_data)
    IN  [ua |-> done.ua, requested |-> names, shown |-> done.shown,
         printed |-> done.printed \o (IF caught THEN <<"unlock">> ELSE <<>>),
         raised |-> raised, aborted |-> aborted \/ raised \/ caught]

\* ------------------------------------------------------------ save_entry
\* mutant: no "elif len(selected_comps) > 3"
FormProblem_no_limit(f) ==
    IF f.title = <<>> \/ f.type = "" \/ f.date.kind = "empty" THEN "required"
    ELSE IF f.date.kind # "valid" THEN "date"
    ELSE IF Cardinality(f.selected) = 0 THEN "no_competency"
    ELSE "none"

\* the early returns of save_entry, "none" when the form passes them
FormProblem(f) ==
    IF f.title = <<>> \/ f.type = "" \/ f.date.kind = "empty" THEN "required"
    ELSE IF f.date.kind # "valid" THEN "date"
    ELSE IF Cardinality(f.selected) = 0 THEN "no_competency"
    ELSE IF Cardinality(f.selected) > MAX_SELECTED THEN "too_many"
    ELSE "none"

\* self.desc_text.get("1.0", tk.END).strip(): the surrounding blanks (Tk's
\* final newline among them) are dropped; the length of what is left
StrippedLength(desc_text) == desc_text.chars

\* selected_comps and the INSERTs into entry_competencies, in comp_vars order
GradeRows(entry_id, vs, selected, level) ==
    LET picked == SelectSeq([i \in DOMAIN vs |-> i], LAMBDA i : i \in selected)
    IN  [k \in DOMAIN picked |->
            [entry_id |-> entry_id, competency_id |-> vs[picked[k]].id,
             level |-> level]]

\* k.strip()
RECURSIVE Strip(_)
Strip(text) ==
    IF text = <<>> THEN <<>>
    ELSE IF Head(text) = " " THEN Strip(Tail(text))
    ELSE IF text[Len(text)] = " " THEN Strip(SubSeq(text, 1, Len(text) - 1))
    ELSE text

\* keywords = [k.strip() for k in keywords_input.split(",") if k.strip()],
\* keywords_input given as its comma separated pieces; keywords[:5]
Keywords(pieces) ==
    LET stripped == [i \in DOMAIN pieces |-> Strip(pieces[i])]
        kept == SelectSeq(stripped, LAMBDA k : k # <<>>)
    IN  IF Len(kept) > MAX_KEYWORDS THEN SubSeq(kept, 1, MAX_KEYWORDS) ELSE kept

\* the loop over keywords: INSERT INTO keywords ... ON CONFLICT (keyword) DO
\* UPDATE ... RETURNING id (the SERIAL advances on a conflict too), INSERT
\* INTO entry_keywords ... ON CONFLICT DO NOTHING
RECURSIVE InsertKeywords(_, _, _, _, _)
InsertKeywords(kws, seq, eks, entry_id, list) ==
    IF list = <<>> THEN [keywords |-> kws, keywords_seq |-> seq, entry_keywords |-> eks]
    ELSE LET keyword == Head(list)
             known == { i \in DOMAIN kws : kws[i].keyword = keyword }
             keyword_id == IF known = {} THEN seq + 1
                           ELSE kws[CHOOSE i \in known : TRUE].id
             kws1 == IF known = {} THEN Append(kws, [id |-> seq + 1, keyword |-> keyword])
                     ELSE kws
             link == [entry_id |-> entry_id, keyword_id |-> keyword_id]
             eks1 == IF \E i \in DOMAIN eks : eks[i] = link THEN eks ELSE Append(eks, link)
         IN  InsertKeywords(kws1, seq + 1, eks1, entry_id, Tail(list))

\* mutant: the commit placed after check_achievements, so that a failure
\* there leaves the entry behind in a transaction that is never committed
conn_commit_after_evaluation(before, saved, failed) ==
    IF failed THEN before ELSE saved

\* self.conn.commit() after the INSERTs of the entry, its keywords and its
\* grades and before check_achievements: the rows the store holds when the
\* handler is over, `before` and `saved` the tables without and with the new
\* rows, `failed` whether a statement failed during check_achievements (no
\* rollback() is ever called)
conn_commit(before, saved, failed) ==
    saved

\* save_entry() on the form f, with check_achievements and update_all_tabs,
\* the store failing during check_achievements as `fault` says
save_entry(f, fault) ==
    /\ f.selected \subseteq DOMAIN comp_vars
    /\ LET problem == FormProblem(f)
       IN  IF problem # "none"
           THEN /\ last' = Ran("save_entry", FALSE, <<>>, << WarningBox(problem) >>, <<>>)
                /\ UNCHANGED << others, store, app_competencies, goals_text, current_year, loads >>
           ELSE IF tx_aborted
           THEN /\ last' = Ran("save_entry", FALSE, <<>>, << ErrorBox("save") >>, <<>>)
                /\ UNCHANGED << others, store, app_competencies, goals_text, current_year, loads >>
           ELSE LET entry_id == entries_seq + 1
                    es == Append(entries,
                                 [id |-> entry_id, type |-> f.type, year |-> f.date.year,
                                  description |-> Some(StrippedLength(f.desc_text)),
                                  coauthors |-> Some(f.coauthors)])
                    kwd == InsertKeywords(keywords, keywords_seq, entry_keywords,
                                          entry_id, Keywords(f.keywords_input))
                    ecs == entry_competencies
                           \o GradeRows(entry_id, comp_vars, f.selected, f.level)
                    ach == check_achievements(achievements, user_achievements, es,
                                                 current_year, fault, FALSE)
                    tab == update_competencies(app_competencies, competencies, ecs,
                                               [comp_data |-> comp_data,
                                                competencies_text |-> competencies_text,
                                                recommendations_text |-> recommendations_text])
                    upd == update_goals(goals, es, competencies, ecs)
                    info == IF Len(SelectSeq([i \in DOMAIN f.keywords_input |->
                                                  Strip(f.keywords_input[i])],
                                             LAMBDA k : k # <<>>)) > MAX_KEYWORDS
                            THEN << InfoBox("keywords") >> ELSE <<>>
                    ran == [Ran("save_entry", TRUE, ach.requested, info \o ach.shown,
                                ach.printed) EXCEPT !.entry_id = entry_id, !.fault = fault]
                    kept == conn_commit(
                                [entries |-> entries, keywords |-> keywords,
                                 entry_keywords |-> entry_keywords,
                                 entry_competencies |-> entry_competencies],
                                [entries |-> es, keywords |-> kwd.keywords,
                                 entry_keywords |-> kwd.entry_keywords,
                                 entry_competencies |-> ecs],
                                ach.raised \/ ach.aborted)
                IN  /\ entries' = kept.entries
                    /\ entries_seq' = entry_id
                    /\ keywords' = kept.keywords
                    /\ keywords_seq' = kwd.keywords_seq
                    /\ entry_keywords' = kept.entry_keywords
                    /\ entry_competencies' = kept.entry_competencies
                    /\ user_achievements' = ach.ua
                    /\ tx_aborted' = ach.aborted
                    /\ IF ach.raised
                       THEN /\ last' = [ran EXCEPT !.shown = @ \o << ErrorBox("save") >>]
                            /\ UNCHANGED << goals, goals_text, panels >>
                       ELSE IF ach.aborted
                       THEN /\ last' = [ran EXCEPT !.shown = @ \o << SuccessBox("entry") >>]
                            /\ competencies_text' = CompetenciesErrorText
                            /\ goals_text' = GoalsErrorText
                            /\ UNCHANGED << goals, comp_data, recommendations_text >>
                       ELSE /\ last' = WithRefresh([ran EXCEPT !.shown =
                                                        @ \o << SuccessBox("entry") >>], upd)
                            /\ comp_data' = tab.comp_data
                            /\ competencies_text' = tab.competencies_text
                            /\ recommendations_text' = tab.recommendations_text
                            /\ goals' = upd.goals
                            /\ goals_text' = upd.text
                    /\ UNCHANGED << achievements, competencies, competencies_seq,
                                    app_competencies, comp_vars, current_year, loads >>

\* check_achievements called on its own (as the unit tests do, with 1)
call_check_achievements(fault) ==
    LET ach == check_achievements(achievements, user_achievements, entries,
                                     current_year, fault, tx_aborted)
    IN  /\ user_achievements' = ach.ua
        /\ tx_aborted' = ach.aborted
        /\ last' = [Ran("check_achievements", TRUE, ach.requested, ach.shown, ach.printed)
                       EXCEPT !.raised = ach.raised, !.entry_id = 1, !.fault = fault]
        /\ UNCHANGED << kw, panels, entries, entries_seq, achievements, competencies,
                        competencies_seq, entry_competencies, goals, app_competencies,
                        comp_vars, goals_text, current_year, loads >>

\* unlock_achievement called on its own (as the unit tests do); `fails`: a
\* statement of it fails
call_unlock_achievement(name, fails) ==
    LET one == IF tx_aborted \/ fails
               THEN [ua |-> user_achievements, shown |-> <<>>, printed |-> <<"unlock">>]
               ELSE unlock_achievement(achievements, user_achievements, name, USER_ID)
    IN  /\ user_achievements' = one.ua
        /\ tx_aborted' = (tx_aborted \/ fails)
        /\ last' = Ran("unlock_achievement", FALSE, << name >>, one.shown, one.printed)
        /\ UNCHANGED << kw, panels, entries, entries_seq, achievements, competencies,
                        competencies_seq, entry_competencies, goals, app_competencies,
                        comp_vars, goals_text, current_year, loads >>

\* the calendar year changes between two handler runs
new_year ==
    /\ current_year + 1 \in Years
    /\ current_year' = current_year + 1
    /\ last' = Ran("new_year", FALSE, <<>>, <<>>, <<>>)
    /\ UNCHANGED << others, store, app_competencies, goals_text, loads >>

\* INSERT INTO entries (название, тип, дата) VALUES (...): a row written
\* past the form, описание and соавторы left NULL
db_insert_entry(type, year) ==
    /\ entries_seq < MaxEntries
    /\ entries' = Append(entries, [id |-> entries_seq + 1, type |-> type, year |-> year,
                                   description |-> NULL, coauthors |-> NULL])
    /\ entries_seq' = entries_seq + 1
    /\ last' = Ran("db_insert_entry", FALSE, <<>>, <<>>, <<>>)
    /\ UNCHANGED << others, achievements, user_achievements, competencies, competencies_seq,
                    entry_competencies, goals, app_competencies, goals_text,
                    current_year, loads >>

\* DELETE FROM entries WHERE id = %s, with ON DELETE CASCADE of
\* entry_competencies and entry_keywords
db_delete_entry(id) ==
    /\ \E i \in DOMAIN entries : entries[i].id = id
    /\ entries' = SelectSeq(entries, LAMBDA e : e.id # id)
    /\ entry_competencies' = SelectSeq(entry_competencies, LAMBDA ec : ec.entry_id # id)
    /\ entry_keywords' = SelectSeq(entry_keywords, LAMBDA ek : ek.entry_id # id)
    /\ last' = Ran("db_delete_entry", FALSE, <<>>, <<>>, <<>>)
    /\ UNCHANGED << keywords, keywords_seq, panels, tx_aborted, comp_vars, entries_seq, achievements,
                    user_achievements, competencies,
                    competencies_seq, goals, app_competencies, goals_text,
                    current_year, loads >>

\* ------------------------------------------------------ load_competencies
\* mutant: the rows of the previous load are kept
DeleteFromCompetencies_keeps(comps) == comps

\* DELETE FROM competencies: the rows left
DeleteFromCompetencies(comps) == <<>>

\* mutant: entry_competencies.competency_id without ON DELETE CASCADE (and
\* without the reference)
OnDeleteCascade_none(ecs, comps) == ecs

\* competency_id INTEGER REFERENCES competencies(id) ON DELETE CASCADE: the
\* rows of entry_competencies left when competencies holds `comps`
OnDeleteCascade(ecs, comps) ==
    SelectSeq(ecs, LAMBDA ec : \E i \in DOMAIN comps : comps[i].id = ec.competency_id)

\* load_competencies() with `specialty` chosen in specialty_combo: DELETE FROM
\* competencies (ON DELETE CASCADE empties entry_competencies), the INSERTs,
\* self.competencies and the checkboxes rebuilt, update_competencies.
\* self.competencies is emptied before the try: a failing DELETE leaves it so.
load_competencies(specialty) ==
    /\ specialty \in Specialties
    /\ loads < MaxLoads
    /\ loads' = loads + 1
    /\ IF tx_aborted
       THEN /\ app_competencies' = <<>>
            /\ last' = [Ran("load_competencies", FALSE, <<>>,
                            << ErrorBox("competencies") >>, <<>>)
                           EXCEPT !.specialty = specialty]
            /\ UNCHANGED << competencies, competencies_seq, entry_competencies, panels,
                            comp_vars >>
       ELSE LET kept == DeleteFromCompetencies(competencies)
                ecs == OnDeleteCascade(entry_competencies, kept)
                loaded == LoadedCompetencies(specialty, competencies_seq)
                tab == update_competencies(loaded, kept \o loaded, ecs,
                                           [comp_data |-> comp_data,
                                            competencies_text |-> competencies_text,
                                            recommendations_text |-> recommendations_text])
            IN  /\ competencies' = kept \o loaded
                /\ competencies_seq' = competencies_seq + Len(specialties_data[specialty])
                /\ app_competencies' = loaded
                /\ comp_vars' = CompVars(loaded)
                /\ entry_competencies' = ecs
                /\ comp_data' = tab.comp_data
                /\ competencies_text' = tab.competencies_text
                /\ recommendations_text' = tab.recommendations_text
                /\ last' = [Ran("load_competencies", FALSE, <<>>,
                                << SuccessBox("competencies") >>, <<>>)
                               EXCEPT !.specialty = specialty]
    /\ UNCHANGED << kw, tx_aborted, entries, entries_seq, achievements, user_achievements,
                    goals, goals_text, current_year >>

\* ------------------------------------------------------------ a new start
\* mutant: the catalog rows inserted at every start, no COUNT(*) test and no
\* ON CONFLICT clause (no UNIQUE on название)
create_tables_reseeds(achs) ==
    achs \o [i \in DOMAIN achievements_data |->
                [id |-> Len(achs) + i, name |-> achievements_data[i]]]

\* INSERT INTO achievements (название, описание) VALUES (%s, %s)
\*   ON CONFLICT (название) DO NOTHING, for each row of achievements_data
RECURSIVE InsertAchievements(_, _)
InsertAchievements(achs, names) ==
    IF names = <<>> THEN achs
    ELSE LET name == Head(names)
             conflict == \E i \in DOMAIN achs : achs[i].name = name
         IN  InsertAchievements(IF conflict THEN achs
                                ELSE Append(achs, [id |-> Len(achs) + 1, name |-> name]),
                                Tail(names))

\* create_tables(): the catalog afterwards ("SELECT COUNT(*) FROM
\* achievements; if ... == 0: INSERT ...")
create_tables(achs) ==
    IF Len(achs) = 0 THEN InsertAchievements(achs, achievements_data) ELSE achs

\* PortfolioApp(root) on the database a previous run left: a new connection,
\* create_tables, the tabs built anew, load_competencies of the first
\* specialty from create_competencies_tab, and the update_all_tabs scheduled
\* by __init__
startup ==
    /\ loads < MaxStarts
    /\ loads' = loads + 1
    /\ LET kept == DeleteFromCompetencies(competencies)
           ecs == OnDeleteCascade(entry_competencies, kept)
           loaded == LoadedCompetencies(FirstSpecialty, competencies_seq)
           tab == update_competencies(loaded, kept \o loaded, ecs, EmptyPanels)
           upd == update_goals(goals, entries, kept \o loaded, ecs)
       IN  /\ achievements' = create_tables(achievements)
           /\ competencies' = kept \o loaded
           /\ competencies_seq' = competencies_seq + Len(specialties_data[FirstSpecialty])
           /\ app_competencies' = loaded
           /\ comp_vars' = CompVars(loaded)
           /\ entry_competencies' = ecs
           /\ comp_data' = tab.comp_data
           /\ competencies_text' = tab.competencies_text
           /\ recommendations_text' = tab.recommendations_text
           /\ goals' = upd.goals
           /\ goals_text' = upd.text
           /\ last' = WithRefresh([Ran("startup", FALSE, <<>>,
                                        << SuccessBox("competencies") >>, <<>>)
                                       EXCEPT !.specialty = FirstSpecialty], upd)
    /\ tx_aborted' = FALSE
    /\ UNCHANGED << kw, entries, entries_seq, user_achievements, current_year >>

\* update_competencies() from the "Обновить профиль" button
call_update_competencies ==
    /\ IF tx_aborted /\ app_competencies # <<>>
       THEN /\ competencies_text' = CompetenciesErrorText
            /\ UNCHANGED << comp_data, recommendations_text >>
       ELSE LET tab == update_competencies(app_competencies, competencies,
                                           entry_competencies,
                                           [comp_data |-> comp_data,
                                            competencies_text |-> competencies_text,
                                            recommendations_text |-> recommendations_text])
            IN  /\ comp_data' = tab.comp_data
                /\ competencies_text' = tab.competencies_text
                /\ recommendations_text' = tab.recommendations_text
    /\ last' = Ran("update_competencies", FALSE, <<>>, <<>>, <<>>)
    /\ UNCHANGED << kw, tx_aborted, store, app_competencies, comp_vars, goals_text,
                    current_year, loads >>

\* generate_recommendations(comp_data) called on its own (as the unit tests
\* do) with rows of its caller's choice
call_generate_recommendations(data) ==
    /\ comp_data' = data
    /\ recommendations_text' = generate_recommendations(data)
    /\ last' = Ran("generate_recommendations", FALSE, <<>>, <<>>, <<>>)
    /\ UNCHANGED << kw, tx_aborted, competencies_text, store, app_competencies, comp_vars,
                    goals_text, current_year, loads >>

\* ----------------------------------------------------------------- goals
\* the early returns of add_goal, "none" when the form passes them.
\* g.value is the text of goal_value_entry: int(...) fails on non-numeric text
GoalProblem(g) ==
    IF g.description = <<>> THEN "description"
    ELSE IF ~g.value.numeric \/ g.value.int <= 0 THEN "value"
    ELSE IF g.type = RAISE_COMPETENCY /\ g.competency = <<>> THEN "competency"
    ELSE "none"

\* description = f"{description} ({competency})" for a "Поднять компетенцию" goal
GoalDescription(g) ==
    IF g.type = RAISE_COMPETENCY
    THEN g.description \o <<" ", "(">> \o g.competency \o <<")">>
    ELSE g.description

\* add_goal() on the form g, with the update_goals it ends with
add_goal(g) ==
    LET problem == GoalProblem(g)
    IN  IF problem # "none"
        THEN /\ last' = Ran("add_goal", FALSE, <<>>, << WarningBox(problem) >>, <<>>)
             /\ UNCHANGED << others, store, app_competencies, goals_text, current_year, loads >>
        ELSE IF tx_aborted
        THEN /\ last' = Ran("add_goal", FALSE, <<>>, << ErrorBox("goal") >>, <<>>)
             /\ UNCHANGED << others, store, app_competencies, goals_text, current_year, loads >>
        ELSE /\ Len(goals) < MaxGoals
             /\ LET row == [description |-> GoalDescription(g), type |-> g.type,
                            target |-> g.value.int, current |-> 0, completed |-> FALSE]
                    upd == update_goals(Append(goals, row), entries, competencies,
                                        entry_competencies)
                IN  /\ goals' = upd.goals
                    /\ goals_text' = upd.text
                    /\ last' = WithRefresh(Ran("add_goal", FALSE, <<>>,
                                                << SuccessBox("goal") >>, <<>>), upd)
             /\ UNCHANGED << others, entries, entries_seq, achievements, user_achievements,
                             competencies, competencies_seq, entry_competencies,
                             app_competencies, current_year, loads >>

\* update_goals() from the "Обновить прогресс" button
call_update_goals ==
    /\ IF tx_aborted
       THEN /\ goals_text' = GoalsErrorText
            /\ last' = Ran("update_goals", FALSE, <<>>, <<>>, <<>>)
            /\ UNCHANGED goals
       ELSE LET upd == update_goals(goals, entries, competencies, entry_competencies)
            IN  /\ goals' = upd.goals
                /\ goals_text' = upd.text
                /\ last' = WithRefresh(Ran("update_goals", FALSE, <<>>, <<>>, <<>>), upd)
    /\ UNCHANGED << others, entries, entries_seq, achievements, user_achievements,
                    competencies, competencies_seq, entry_competencies,
                    app_competencies, current_year, loads >>

\* a goals row written past the form, as update_goals is given it in the
\* unit tests: no "(" in the description, a current value already stored
db_insert_goal(row) ==
    /\ Len(goals) < MaxGoals
    /\ goals' = Append(goals, row)
    /\ last' = Ran("db_insert_goal", FALSE, <<>>, <<>>, <<>>)
    /\ UNCHANGED << others, entries, entries_seq, achievements, user_achievements,
                    competencies, competencies_seq, entry_competencies,
                    app_competencies, goals_text, current_year, loads >>

\* delete_all_goals() answered yes: DELETE FROM goals, update_goals
delete_all_goals ==
    /\ IF tx_aborted
       THEN /\ last' = Ran("delete_all_goals", FALSE, <<>>, << ErrorBox("delete") >>, <<>>)
            /\ UNCHANGED << goals, goals_text >>
       ELSE LET upd == update_goals(<<>>, entries, competencies, entry_competencies)
            IN  /\ goals' = upd.goals
                /\ goals_text' = upd.text
                /\ last' = WithRefresh(Ran("delete_all_goals", FALSE, <<>>,
                                            << SuccessBox("deleted") >>, <<>>), upd)
    /\ UNCHANGED << others, entries, entries_seq, achievements, user_achievements,
                    competencies, competencies_seq, entry_competencies,
                    app_competencies, current_year, loads >>

\* ---------------------------------------------------------- export_to_word
\* export_to_word(): the report is built from the tabs, which it refreshes
\* on the way: update_competencies(), generate_recommendations([]),
\* update_goals()
export_to_word ==
    /\ IF tx_aborted
       THEN /\ last' = Ran("export_to_word", FALSE, <<>>, << ErrorBox("export") >>, <<>>)
            /\ UNCHANGED << goals, goals_text, panels >>
       ELSE LET tab == update_competencies(app_competencies, competencies,
                                           entry_competencies,
                                           [comp_data |-> comp_data,
                                            competencies_text |-> competencies_text,
                                            recommendations_text |-> recommendations_text])
                upd == update_goals(goals, entries, competencies, entry_competencies)
            IN  /\ competencies_text' = tab.competencies_text
                /\ comp_data' = <<>>
                /\ recommendations_text' = generate_recommendations(<<>>)
                /\ goals' = upd.goals
                /\ goals_text' = upd.text
                /\ last' = WithRefresh(Ran("export_to_word", FALSE, <<>>,
                                            << SuccessBox("export") >>, <<>>), upd)
    /\ UNCHANGED << kw, tx_aborted, entries, entries_seq, achievements, user_achievements,
                    competencies, competencies_seq, entry_competencies,
                    app_competencies, comp_vars, current_year, loads >>

\* ----------------------------------------------------------------- forms
NoCoauthors == <<>>
OneSpace == <<" ">>
TwoSpaces == <<" ", " ">>
Named == <<"I", "v">>

Form(title, type, date, chars, coauthors, selected, level) ==
    [ title |-> title, type |-> type, date |-> date,
      desc_text |-> [chars |-> chars, blank |-> 1], coauthors |-> coauthors,
      keywords_input |-> <<>>, selected |-> selected, level |-> level ]

\* the form with keywords_combo filled in (the pieces between its commas)
WithKeywords(f, pieces) == [f EXCEPT !.keywords_input = pieces]

On(year) == [kind |-> "valid", year |-> year]
Malformed == [kind |-> "malformed", year |-> 0]

\* the forms saved when the achievements are examined: types, years,
\* description lengths and coauthors vary, one competency is graded
AchievementForms ==
    { Form(<<"T">>, "Project", On(2025), 2500, Named, {1}, 3),
      Form(<<"T">>, "Publication", On(2025), 2500, Named, {1}, 3),
      Form(<<"T">>, "Conference", On(2025), 1000, NoCoauthors, {1}, 3),
      Form(<<"T">>, "Project", On(2026), 2501, OneSpace, {1}, 3),
      Form(<<"T">>, "Conference", On(2025), 1000, TwoSpaces, {1}, 3),
      Form(<<>>, "Project", On(2025), 0, NoCoauthors, {1}, 3),
      Form(<<"T">>, "Project", Malformed, 0, NoCoauthors, {1}, 3) }

\* the forms saved when the goals are examined: the graded competencies and
\* the level vary
GoalForms ==
    { Form(<<"T">>, "Project", On(2025), 10, NoCoauthors, {1}, 4),
      Form(<<"T">>, "Project", On(2025), 10, NoCoauthors, {1}, 5),
      Form(<<"T">>, "Project", On(2025), 10, NoCoauthors, {1, 2, 3, 4}, 3) }

GoalForm(type, description, value, competency) ==
    [type |-> type, description |-> description, value |-> value,
     competency |-> competency]

Number(n) == [numeric |-> TRUE, int |-> n]
NotANumber == [numeric |-> FALSE, int |-> 0]

\* the goals added: both types, targets 2, 4 and 6, the competency one of
\* the names offered by goal_comp_combo, a description with brackets of its
\* own ("g(1)")
GoalInputs ==
    { GoalForm(ADD_ENTRIES, <<"g">>, Number(2), <<>>),
      GoalForm(ADD_ENTRIES, <<"g">>, NotANumber, <<>>) }
    \cup { GoalForm(RAISE_COMPETENCY, <<"g">>, Number(4), app_competencies[i].name) :
             i \in DOMAIN app_competencies \cap {1} }
    \cup { GoalForm(RAISE_COMPETENCY, <<"g", "(", "1", ")">>, Number(6),
                    app_competencies[i].name) :
             i \in DOMAIN app_competencies \cap {1} }

\* the goals rows written past the form: (2, "Поднять программирование до 4",
\* "Поднять компетенцию", 4, 3, False)
GoalRows ==
    { [description |-> <<"g">>, type |-> RAISE_COMPETENCY, target |-> 4,
       current |-> 3, completed |-> FALSE] }

UnlockNames == {"FirstStep", "Unknown"}

\* the forms saved when the competency levels are examined: the first
\* entries grade Программирование 2..5 or Работа с БД 1..2, the later ones
\* all grade Программирование 3
CompetencyForms(saved) ==
    IF saved < MaxVaried
    THEN { Form(<<"T">>, "Project", On(2025), 10, NoCoauthors, {1}, level) :
             level \in {2, 3, 4, 5} }
         \cup { Form(<<"T">>, "Project", On(2025), 10, NoCoauthors, {2}, level) :
                  level \in {1, 2} }
    ELSE { Form(<<"T">>, "Project", On(2025), 10, NoCoauthors, {1}, 3) }

\* a comp_data row as the unit tests write it: (id, name, category, level)
Row(id, name, category, sum, n) ==
    [id |-> id, name |-> name, category |-> category, avg_level |-> [sum |-> sum, n |-> n]]

\* the lists generate_recommendations is called with on its own: the unit
\* test's (levels 0, 1.5, 2.5, 4.8), one competency at 3.5, the empty list
\* of export_to_word, and names with two tokens, one token and none at 1.5
RecommendationInputs ==
    { << Row(1, <<"P", "G", " ", "D", "B">>, "Technical", 3, 2),
         Row(2, <<"D", "B", " ", "P", "Z">>, "Technical", 3, 2),
         Row(3, <<"P", "Z", " ", "P", "G">>, "Technical", 3, 2),
         Row(4, <<"P", "Z">>, "Communication", 3, 2),
         Row(5, <<"N", "P">>, "Communication", 3, 2) >>,
      << Row(1, <<"P", "G">>, "Technical", 0, 0),
         Row(2, <<"W", " ", "D", "B">>, "Technical", 3, 2),
         Row(3, <<"P", "Z">>, "Communication", 5, 2),
         Row(4, <<"N", "P">>, "Communication", 24, 5) >>,
      << Row(1, <<"P", "G">>, "Technical", 7, 2) >>,
      <<>> }

\* the forms saved when failures are examined: three types, coauthors named
FaultForms ==
    { Form(<<"T">>, "Project", On(2025), 2500, Named, {1}, 3),
      Form(<<"T">>, "Publication", On(2025), 2500, Named, {1}, 3),
      WithKeywords(Form(<<"T">>, "Conference", On(2025), 1000, Named, {1, 2}, 3),
                   << <<" ", "k">>, <<"k">>, <<" ">>, <<"m">> >>) }

Faults == {NoFault}
          \cup { QueryFault(k) : k \in DOMAIN achievements_data }
          \cup { UnlockFault(k) : k \in DOMAIN achievements_data }

\* the forms saved when the starts and loads are examined: one, three and
\* four competencies ticked, with and without keywords
StartForms ==
    { WithKeywords(Form(<<"T">>, "Project", On(2025), 10, NoCoauthors, {1}, 5),
                   << <<"k">> >>),
      Form(<<"T">>, "Project", On(2025), 10, NoCoauthors, {1, 2, 3}, 2),
      WithKeywords(Form(<<"T">>, "Project", On(2025), 10, NoCoauthors, {1, 2, 3, 4}, 3),
                   << <<"k">> >>) }

\* the goals added then: to raise the first competency offered to 4
StartGoals ==
    { GoalForm(RAISE_COMPETENCY, <<"g">>, Number(4), app_competencies[i].name) :
        i \in DOMAIN app_competencies \cap {1} }

\* ------------------------------------------------------ specifications
\* achievements: save_entry, check_achievements and unlock_achievement, the
\* rows written and deleted past the form, the turn of the year
Next ==
    \/ \E f \in AchievementForms : entries_seq < MaxEntries /\ save_entry(f, NoFault)
    \/ call_check_achievements(NoFault)
    \/ \E name \in UnlockNames : call_unlock_achievement(name, FALSE)
    \/ \E type \in {"Project"}, year \in {2025} : db_insert_entry(type, year)
    \/ \E id \in 1..MaxEntries : db_delete_entry(id)
    \/ new_year

Spec == Init /\ [][Next]_vars

\* goals: save_entry with graded competencies, add_goal, update_goals,
\* delete_all_goals, rows written and deleted past the form
GoalNext ==
    \/ \E f \in GoalForms : entries_seq < MaxGraded /\ save_entry(f, NoFault)
    \/ \E g \in GoalInputs : add_goal(g)
    \/ call_update_goals
    \/ delete_all_goals
    \/ \E row \in GoalRows : db_insert_goal(row)
    \/ \E id \in 1..MaxEntries : db_delete_entry(id)

GoalSpec == Init /\ [][GoalNext]_vars

\* competencies: save_entry with graded competencies, update_competencies
\* and, while the first entries are saved, generate_recommendations,
\* export_to_word and entries deleted past the form
CompNext ==
    \/ \E f \in CompetencyForms(entries_seq) : entries_seq < MaxHistory /\ save_entry(f, NoFault)
    \/ call_update_competencies
    \/ \E data \in RecommendationInputs :
          entries_seq <= MaxVaried /\ call_generate_recommendations(data)
    \/ entries_seq <= MaxVaried /\ export_to_word
    \/ \E id \in 1..MaxVaried : entries_seq <= MaxVaried /\ db_delete_entry(id)

CompSpec == Init /\ [][CompNext]_vars

\* failures: save_entry, check_achievements and unlock_achievement on a
\* connection that fails at one statement, and the handlers run afterwards
FaultNext ==
    \/ \E f \in FaultForms, fault \in Faults : entries_seq < MaxEntries /\ save_entry(f, fault)
    \/ \E fault \in Faults : call_check_achievements(fault)
    \/ \E name \in UnlockNames, fails \in BOOLEAN : call_unlock_achievement(name, fails)
    \/ call_update_competencies
    \/ call_update_goals

FaultSpec == Init /\ [][FaultNext]_vars

\* starts and loads: the application started again on its database,
\* load_competencies, and the handlers whose rows these touch or must not
\* touch
StartNext ==
    \/ \E f \in StartForms : entries_seq < MaxGraded /\ save_entry(f, NoFault)
    \/ \E g \in StartGoals : add_goal(g)
    \/ call_update_goals
    \/ call_update_competencies
    \/ \E specialty \in Specialties : load_competencies(specialty)
    \/ startup
    \/ delete_all_goals
    \/ export_to_word

StartSpec == Init /\ [][StartNext]_vars

\* ================================================================ claims
\* ------------------------------------------- what the claims speak about
Range(s) == { s[i] : i \in DOMAIN s }

\* the stored unlock record of an achievement name exists
Unlocked(name) ==
    \E i \in DOMAIN user_achievements, k \in DOMAIN achievements :
        /\ achievements[k].name = name
        /\ user_achievements[i].achievement_id = achievements[k].id

\* the achievement names of the unlock notifications a handler run showed
Notified(ran) ==
    LET boxes == SelectSeq(ran.shown, LAMBDA b : b.title = "Achievement")
    IN  [i \in DOMAIN boxes |-> boxes[i].about]

\* the achievement names of the rows i+1.. of user_achievements
NamesFrom(ua, n) ==
    [i \in 1..(Len(ua) - n) |->
        achievements[CHOOSE k \in DOMAIN achievements :
                        achievements[k].id = ua[n + i].achievement_id].name]

IsSpace(ch) == ch = " "

\* a coauthors value that names somebody: not NULL, not empty, not only spaces
NamesSomebody(coauthors) ==
    /\ coauthors # NULL
    /\ \E i \in DOMAIN Value(coauthors) : ~IsSpace(Value(coauthors)[i])

\* a coauthors value that is not blank: not NULL and not the empty text
NotBlank(coauthors) == coauthors # NULL /\ Value(coauthors) # <<>>

TypesIn(es) == { es[i].type : i \in DOMAIN es }

DatedIn(es, year) == { i \in DOMAIN es : es[i].year = year }

DescriptionLength(e) == IF e.description = NULL THEN 0 ELSE Value(e.description)

TotalDescriptionLength(es) == SumOver([i \in DOMAIN es |-> DescriptionLength(es[i])])

\* the condition of each achievement as the specification's table states it
ConditionHolds(name, es, year) ==
    CASE name = "FirstStep" -> Len(es) = 1
      [] name = "TeamPlayer" ->
            Cardinality({ i \in DOMAIN es : NamesSomebody(es[i].coauthors) }) >= 3
      [] name = "Versatile" -> Cardinality(TypesIn(es)) >= 3
      [] name = "ProductiveYear" -> Cardinality(DatedIn(es, year)) >= 3
      [] name = "Wordsmith" -> TotalDescriptionLength(es) > 5000

\* ------------------------------------------------------------------- C1
\* C1: in every reachable state user_achievements holds at most one row per
\* (user, achievement) pair.
C1_AtMostOneUnlockRecord ==
    \A i, j \in DOMAIN user_achievements :
        (/\ user_achievements[i].user_id = user_achievements[j].user_id
         /\ user_achievements[i].achievement_id = user_achievements[j].achievement_id)
        => i = j

\* an evaluation has just asked again for an achievement unlocked before
C1_Witness ==
    /\ last.evaluated
    /\ \E i \in DOMAIN last.requested :
          /\ Unlocked(last.requested[i])
          /\ last.requested[i] \notin Range(Notified(last))

\* ------------------------------------------------------------------- C2
\* C2: an unlock_achievement call for an achievement already unlocked for the
\* user inserts nothing, shows no notification, prints no error and raises
\* nothing; in every step the notifications shown are exactly those of the
\* rows that step inserted, in order.
C2_SecondUnlockIsSilent ==
    [][ /\ (last'.op = "unlock_achievement" /\ Unlocked(last'.requested[1]))
           => /\ user_achievements' = user_achievements
              /\ last'.shown = <<>>
              /\ last'.printed = <<>>
              /\ ~last'.raised
        /\ Len(user_achievements') >= Len(user_achievements)
        /\ SubSeq(user_achievements', 1, Len(user_achievements)) = user_achievements
        /\ Notified(last') = NamesFrom(user_achievements', Len(user_achievements))
      ]_vars

\* unlock_achievement has just been called for an unlocked achievement
C2_Witness ==
    /\ last.op = "unlock_achievement"
    /\ last.requested = << "FirstStep" >>
    /\ Unlocked("FirstStep")
    /\ last.shown = <<>>

\* ------------------------------------------------------------------- C3
\* C3: an evaluation asks for "First step" exactly when the store holds one
\* entry; a save shows the "First step" notification exactly when it stores
\* the first entry of a store without that unlock, so the save of a 2nd or
\* later entry never shows it.
C3_FirstStepOnlyAtOne ==
    /\ [](last.evaluated => ("FirstStep" \in Range(last.requested) <=> Len(entries) = 1))
    /\ [][ (last'.op = "save_entry" /\ last'.evaluated)
           => ("FirstStep" \in Range(Notified(last'))
               <=> (Len(entries) = 0 /\ ~Unlocked("FirstStep"))) ]_vars

\* the save of the 2nd entry has just run its evaluation
C3_Witness ==
    /\ last.op = "save_entry"
    /\ last.evaluated
    /\ Len(entries) = 2
    /\ Unlocked("FirstStep")
    /\ "FirstStep" \notin Range(last.requested)

\* ------------------------------------------------------------------- C4
\* 3 entries of the current year, 2 of them with non-blank coauthors (the
\* third NULL or empty), 3 distinct types, 6000 description characters
C4_Scenario ==
    /\ Len(entries) = 3
    /\ Cardinality(DatedIn(entries, current_year)) = 3
    /\ Cardinality({ i \in DOMAIN entries : NotBlank(entries[i].coauthors) }) = 2
    /\ Cardinality(TypesIn(entries)) = 3
    /\ TotalDescriptionLength(entries) = 6000

\* C4: one evaluation leaves every achievement whose condition holds unlocked
\* (no predicate is skipped because an earlier one fired), and on the scenario
\* store it asks for exactly "Versatile", "Productive year" and "Wordsmith",
\* for neither "Team player" nor "First step".
C4_PredicatesIndependent ==
    last.evaluated =>
        /\ \A name \in Range(achievements_data) :
              ConditionHolds(name, entries, current_year)
              => (name \in Range(last.requested) /\ Unlocked(name))
        /\ C4_Scenario
           => /\ Range(last.requested) = {"Versatile", "ProductiveYear", "Wordsmith"}
              /\ \A name \in Range(last.requested) : Unlocked(name)

\* an evaluation has just run on the scenario store
C4_Witness ==
    /\ last.evaluated
    /\ C4_Scenario
    /\ Len(last.requested) = 3

\* ------------------------------------------------------------------- C5
\* C5: an evaluation asks for "Team player" if and only if at least 3 entries
\* have a coauthors field that is neither NULL, nor empty, nor made of
\* whitespace only.
C5_TeamPlayerCountsNamedCoauthors ==
    last.evaluated =>
        ("TeamPlayer" \in Range(last.requested)
         <=> Cardinality({ i \in DOMAIN entries : NamesSomebody(entries[i].coauthors) }) >= 3)

\* ------------------------------------------------------------------- C6
\* C6: an evaluation asks for "Versatile" if and only if the entries of the
\* store have at least 3 distinct types.
C6_VersatileCountsDistinctTypes ==
    last.evaluated =>
        ("Versatile" \in Range(last.requested) <=> Cardinality(TypesIn(entries)) >= 3)

\* an evaluation on 3 entries of 3 types has just asked for "Versatile"
C6_Witness ==
    /\ last.evaluated
    /\ Cardinality(TypesIn(entries)) = 3
    /\ "Versatile" \in Range(last.requested)

C8_WordsmithAboveFiveThousand ==
    last.evaluated =>
        ("Wordsmith" \in Range(last.requested) <=> TotalDescriptionLength(entries) > 5000)

\* an evaluation on a total of exactly 5001 has just asked for "Wordsmith"
C8_Witness ==
    /\ last.evaluated
    /\ TotalDescriptionLength(entries) = 5001
    /\ "Wordsmith" \in Range(last.requested)

\* ------------------------------------------------------------------- C9
\* C9: after every goal refresh, for every stored goal of either type the
\* completed flag equals (current >= target), current being the value that
\* refresh computed and displayed for the goal; the displayed status agrees.
C9_CompletedIffCurrentReachesTarget ==
    last.refreshed =>
        /\ Len(goals_text) = Len(goals)
        /\ \A i \in DOMAIN goals :
              /\ goals_text[i].target = goals[i].target
              /\ goals[i].completed <=> (goals_text[i].current >= 10 * goals[i].target)
              /\ goals[i].completed <=> (goals_text[i].status = "Done")

\* a refresh has just left one goal of each type, one completed, one not
C9_Witness ==
    /\ last.refreshed
    /\ \E i, j \in DOMAIN goals :
          /\ goals[i].type = ADD_ENTRIES
          /\ goals[j].type = RAISE_COMPETENCY
          /\ goals[i].completed # goals[j].completed

\* ------------------------------------------------------------------ C10
\* the grade levels now linked to the competencies named as the goal's
\* description ends (" (name)")
C10_Levels(goal, comps, ecs) ==
    LET named == { k \in DOMAIN comps :
                     \E n \in 1..Len(goal.description) :
                        SubSeq(goal.description, n, Len(goal.description))
                        = <<"(">> \o comps[k].name \o <<")">> }
        rows == { r \in DOMAIN ecs :
                    \E k \in named : ecs[r].competency_id = comps[k].id }
    IN  [r \in rows |-> ecs[r].level]

RECURSIVE C10_Sum(_)
C10_Sum(f) ==
    IF DOMAIN f = {} THEN 0
    ELSE LET r == CHOOSE x \in DOMAIN f : TRUE
         IN  f[r] + C10_Sum([x \in DOMAIN f \ {r} |-> f[x]])

\* the live value of a goal in tenths: the number of entries, or the mean
\* level to the nearest tenth (the even one of two equally near), 0 without
\* grades
C10_Live(goal, es, comps, ecs) ==
    IF goal.type = ADD_ENTRIES THEN 10 * Len(es)
    ELSE LET levels == C10_Levels(goal, comps, ecs)
             n == Cardinality(DOMAIN levels)
             sum == C10_Sum(levels)
         IN  IF n = 0 THEN 0
             ELSE CHOOSE t \in 0..50 :
                    /\ 2 * (10 * sum - t * n) <= n
                    /\ 2 * (t * n - 10 * sum) <= n
                    /\ (2 * (10 * sum - t * n) = n \/ 2 * (t * n - 10 * sum) = n)
                       => t % 2 = 0

C10_LiveCurrent(goal) == C10_Live(goal, entries, competencies, entry_competencies)

C10_LiveNext(goal) == C10_Live(goal, entries', competencies', entry_competencies')

\* C10: completion is not sticky: every refresh leaves a goal completed
\* exactly when its live current value reaches the target, so a goal that
\* was completed is written back as not completed by the first refresh at
\* which current < target (a target of 4 met by a mean of 4.5, then no
\* grades left: current 0).
C10_CompletionFollowsLiveState ==
    [][ last'.refreshed =>
          /\ Len(goals') = Len(goals_text')
          /\ \A i \in DOMAIN goals' :
                /\ goals_text'[i].current = C10_LiveNext(goals'[i])
                /\ goals'[i].completed <=> (C10_LiveNext(goals'[i]) >= 10 * goals'[i].target)
          /\ \A i \in DOMAIN goals' \cap DOMAIN goals :
                (goals[i].completed /\ C10_LiveNext(goals'[i]) < 10 * goals'[i].target)
                => (~goals'[i].completed /\ i \in last'.reopened)
      ]_vars

\* a refresh has just reopened a raise-competency goal of target 4 whose
\* grades are gone (it was completed, so its mean was at least 4)
C10_Witness ==
    /\ last.refreshed
    /\ \E i \in last.reopened :
          /\ goals[i].type = RAISE_COMPETENCY
          /\ goals[i].target = 4
          /\ ~goals[i].completed
          /\ goals_text[i].current = 0

\* the moment before: the goal of target 4 still shows 4.5 and completed,
\* its grades are gone
C10_Before ==
    \E i \in DOMAIN goals :
        /\ goals[i].type = RAISE_COMPETENCY
        /\ goals[i].target = 4
        /\ goals[i].completed
        /\ goals_text[i].current = 45
        /\ C10_LiveCurrent(goals[i]) = 0

\* ------------------------------------------------------------------ C11
\* C11: a refresh sets the current value of every count-entries goal to the
\* number of entries in the store (stored and displayed), so that all such
\* goals agree, and marks it completed exactly when that number reaches the
\* target; a goal of target 2 refreshed at one entry (current 1, not
\* completed) is, after the save of a second entry, refreshed to current 2
\* and completed.
C11_CountGoalsTrackEntryCount ==
    /\ [](last.refreshed =>
             \A i \in DOMAIN goals :
                goals[i].type = ADD_ENTRIES =>
                   /\ goals[i].current = Len(entries)
                   /\ goals_text[i].current = 10 * goals[i].current
                   /\ goals[i].completed <=> (goals[i].current >= goals[i].target)
                   /\ \A j \in DOMAIN goals :
                         goals[j].type = ADD_ENTRIES => goals[j].current = goals[i].current)
    /\ [][ \A i \in DOMAIN goals :
              ( /\ goals[i].type = ADD_ENTRIES /\ goals[i].target = 2
                /\ last.refreshed /\ Len(entries) = 1
                /\ Len(entries') = 2 /\ last'.refreshed /\ Len(goals') = Len(goals) )
              => ( /\ goals[i].current = 1 /\ ~goals[i].completed
                   /\ goals'[i].current = 2 /\ goals'[i].completed )
       ]_vars

\* the save of a second entry has just refreshed two count-entries goals of
\* target 2 to current 2, completed
C11_Witness ==
    /\ last.op = "save_entry" /\ last.refreshed
    /\ Len(entries) = 2
    /\ Len(goals) = 2
    /\ \A i \in DOMAIN goals :
          /\ goals[i].type = ADD_ENTRIES /\ goals[i].target = 2
          /\ goals[i].current = 2 /\ goals[i].completed

\* ------------------------------------------------------------------ C12
\* the position of the last "(" of a text that has one
C12_LastOpen(text) == CHOOSE p \in DOMAIN text :
                         /\ text[p] = "("
                         /\ \A q \in DOMAIN text : q > p => text[q] # "("

\* the text between the last "(" and the ")" the text ends with
C12_Between(text) ==
    LET p == C12_LastOpen(text)
        ends == { q \in p..Len(text) : \A r \in (q + 1)..Len(text) : text[r] = ")" }
        q == CHOOSE x \in ends : \A y \in ends : x <= y
    IN  SubSeq(text, p + 1, q)

\* C12: in a refresh, a raise-competency goal whose description has a "("
\* is looked up under the text between the last "(" and the trailing ")",
\* and under nothing else; one whose description has no "(" gets current 0
\* without any lookup.
C12_TargetNameIsLastBracket ==
    last.refreshed =>
        \A i \in DOMAIN goals :
           goals[i].type = RAISE_COMPETENCY =>
              IF \E p \in DOMAIN goals[i].description : goals[i].description[p] = "("
              THEN /\ C12_Between(goals[i].description) # <<>>
                      => last.lookups[i] = << C12_Between(goals[i].description) >>
                   /\ C12_Between(goals[i].description) = <<>>
                      => (last.lookups[i] = <<>> /\ goals_text[i].current = 0)
              ELSE /\ last.lookups[i] = <<>>
                   /\ goals_text[i].current = 0
                   /\ goals[i].current = 0

\* a refresh has just evaluated a goal "g(1) (PG)" against the graded
\* competency PG, and a goal without "(" to 0 with no lookup
C12_Witness ==
    /\ last.refreshed
    /\ \E i, j \in DOMAIN goals :
          /\ goals[i].type = RAISE_COMPETENCY
          /\ goals[i].description = <<"g", "(", "1", ")", " ", "(", "P", "G", ")">>
          /\ last.lookups[i] = << <<"P", "G">> >>
          /\ goals_text[i].current > 0
          /\ goals[j].type = RAISE_COMPETENCY
          /\ goals[j].description = <<"g">>
          /\ last.lookups[j] = <<>>
          /\ goals_text[j].current = 0

\* ------------------------------------------------------------------ C13
\* C13: immediately after a refresh, the current value stored for every
\* goal equals the current value that refresh computed and displayed (for a
\* raise-competency goal the mean level rounded to one decimal, 0 without
\* grades).
C13_StoredCurrentIsDisplayedCurrent ==
    last.refreshed =>
        \A i \in DOMAIN goals : 10 * goals[i].current = goals_text[i].current

\* ------------------------------------------------------------------ C14
\* the grade rows now linked to a competency, their number and their sum
C14_Grades(id) ==
    { r \in DOMAIN entry_competencies : entry_competencies[r].competency_id = id }

C14_Count(id) == Cardinality(C14_Grades(id))

C14_Total(id) == C10_Sum([r \in C14_Grades(id) |-> entry_competencies[r].level])

\* update_competencies has just run to its end
C14_JustAggregated ==
    \/ last.op \in {"update_competencies", "load_competencies", "export_to_word"}
    \/ last.op = "save_entry" /\ last.refreshed

\* C14: after update_competencies a competency is listed among the weak
\* zones if and only if the mean of its grade levels is strictly greater
\* than 0 and strictly less than 3.
C14_WeakZoneIffMeanBetween0And3 ==
    (C14_JustAggregated /\ competencies_text.kind = "levels") =>
        \A c \in DOMAIN competencies :
           (\E w \in DOMAIN competencies_text.weak_zones :
               competencies_text.weak_zones[w].name = competencies[c].name)
           <=> ( /\ C14_Total(competencies[c].id) > 0
                 /\ C14_Total(competencies[c].id) < 3 * C14_Count(competencies[c].id) )

\* ------------------------------------------------------------------ C15
\* C15: after update_competencies, every competency of the active set has
\* one aggregated row, whose level is the arithmetic mean of the levels of
\* the grade rows now linked to it and 0 when there are none (displayed to
\* one decimal); every grade row belongs to a stored entry, those of deleted
\* entries being gone with them.
C15_LevelIsMeanOfLinkedGrades ==
    /\ \A r \in DOMAIN entry_competencies :
          \E e \in DOMAIN entries : entries[e].id = entry_competencies[r].entry_id
    /\ (C14_JustAggregated /\ last.op # "export_to_word") =>
          /\ Len(comp_data) = Len(app_competencies)
          /\ \A a \in DOMAIN app_competencies :
                \E k \in DOMAIN comp_data :
                   /\ comp_data[k].id = app_competencies[a].id
                   /\ comp_data[k].name = app_competencies[a].name
                   /\ comp_data[k].avg_level.n = C14_Count(comp_data[k].id)
                   /\ comp_data[k].avg_level.sum = C14_Total(comp_data[k].id)
                   /\ competencies_text.lines[k].name = comp_data[k].name
                   /\ C14_Count(comp_data[k].id) = 0 => competencies_text.lines[k].level = 0
                   /\ C14_Count(comp_data[k].id) > 0 =>
                         LET shown == competencies_text.lines[k].level
                         IN  /\ 2 * (shown * C14_Count(comp_data[k].id)
                                     - 10 * C14_Total(comp_data[k].id))
                                <= C14_Count(comp_data[k].id)
                             /\ 2 * (10 * C14_Total(comp_data[k].id)
                                     - shown * C14_Count(comp_data[k].id))
                                <= C14_Count(comp_data[k].id)

\* update_competencies has just run after an entry was deleted: one
\* competency shows the mean 3.5 of the two grades it is left with, another
\* has none
C15_Witness ==
    /\ last.op = "update_competencies"
    /\ Len(entries) < entries_seq
    /\ \E k, j \in DOMAIN comp_data :
          /\ comp_data[k].avg_level = [sum |-> 7, n |-> 2]
          /\ competencies_text.lines[k].level = 35
          /\ comp_data[j].avg_level.n = 0
          /\ competencies_text.lines[j].level = 0

\* ------------------------------------------------------------------ C16
\* the tiers a row's message may be of
C16_Tiers(row) ==
    LET sum == row.avg_level.sum
        n == row.avg_level.n
    IN  IF n = 0 \/ sum = 0 THEN {"NotAssessed"}
        ELSE IF 10 * sum < 20 * n
        THEN {"CriticalProgramming", "CriticalDatabase", "CriticalPresentation",
              "CriticalGeneric"}
        ELSE IF 10 * sum < 30 * n THEN {"BelowAverage"}
        ELSE IF 10 * sum < 45 * n THEN {}
        ELSE {"Excellent"}

\* C16: generate_recommendations gives each (competency, mean level) row at
\* most one message, of the tier of its level: 0 not assessed, (0, 2)
\* critical, [2, 3) below average, [3, 4.5) none, from 4.5 on excellent;
\* 1.5 on a name with the database token gives the database suggestion.
C16_OneMessagePerTier ==
    (recommendations_text # <<>> /\ comp_data # <<>>) =>
        /\ \A k \in DOMAIN comp_data :
              LET about == { i \in DOMAIN recommendations_text :
                               recommendations_text[i].name = comp_data[k].name }
              IN  /\ Cardinality(about) <= 1
                  /\ \A i \in about : recommendations_text[i].tier \in C16_Tiers(comp_data[k])
                  /\ C16_Tiers(comp_data[k]) # {} => about # {}
                  /\ ( /\ comp_data[k].avg_level = [sum |-> 3, n |-> 2]
                        /\ comp_data[k].name = <<"W", " ", "D", "B">> )
                     => \A i \in about : recommendations_text[i].tier = "CriticalDatabase"
        /\ \A i \in DOMAIN recommendations_text :
              \/ recommendations_text[i] = Fallback
              \/ \E k \in DOMAIN comp_data : comp_data[k].name = recommendations_text[i].name

\* generate_recommendations has just answered the levels 0, 1.5 (database),
\* 2.5 and 4.8 with four messages
C16_Witness ==
    /\ last.op = "generate_recommendations"
    /\ Len(comp_data) = 4
    /\ recommendations_text =
          << [tier |-> "NotAssessed", name |-> <<"P", "G">>],
             [tier |-> "CriticalDatabase", name |-> <<"W", " ", "D", "B">>],
             [tier |-> "BelowAverage", name |-> <<"P", "Z">>],
             [tier |-> "Excellent", name |-> <<"N", "P">>] >>

\* the level 3.5 alone: no message for the competency
C16_NoMessageWitness ==
    /\ last.op = "generate_recommendations"
    /\ Len(comp_data) = 1
    /\ comp_data[1].avg_level = [sum |-> 7, n |-> 2]
    /\ \A i \in DOMAIN recommendations_text :
          recommendations_text[i].name # comp_data[1].name

\* ------------------------------------------------------------------ C17
\* C17: for an empty aggregated set generate_recommendations emits exactly
\* one message, the fallback; the fallback never stands beside another
\* message.
C17_FallbackStandsAlone ==
    /\ (comp_data = <<>> /\ last.op \in {"generate_recommendations", "export_to_word"})
          => recommendations_text = << Fallback >>
    /\ \A i \in DOMAIN recommendations_text :
          recommendations_text[i].tier = "AllWell" => Len(recommendations_text) = 1

\* export_to_word has just called generate_recommendations([])
C17_Witness ==
    /\ last.op = "export_to_word"
    /\ comp_data = <<>>
    /\ recommendations_text = << Fallback >>

\* ------------------------------------------------------------------ C18
\* the statement of check_achievements that failed in the last run really
\* failed: the SELECT of a predicate, or the unlock_achievement call of a
\* predicate that was due
C18_Failed ==
    /\ last.evaluated
    /\ \/ last.fault.in = "query"
       \/ /\ last.fault.in = "unlock"
          /\ \E name \in Range(Requested(entries, current_year)) :
                PredicateIndex(name) = last.fault.of

\* C18: a persistence failure while one achievement predicate is evaluated
\* or one unlock is performed is caught: no error reaches the caller of the
\* evaluation (save_entry reports none either), and the predicates after the
\* failing step are still evaluated, their achievements unlocked when due.
C18_FailureDoesNotAbortEvaluation ==
    C18_Failed =>
        /\ ~last.raised
        /\ ErrorBox("save") \notin Range(last.shown)
        /\ \A name \in Range(Requested(entries, current_year)) :
              PredicateIndex(name) > last.fault.of
                  => (name \in Range(last.requested) /\ Unlocked(name))

\* ------------------------------------------------------------------ C19
\* C19: unlock_achievement of a name absent from the catalog fails with an
\* error visible to its caller, not swallowed, and inserts no unlock record.
C19_UnknownNameRaises ==
    [][ (/\ last'.op = "unlock_achievement"
         /\ AchievementRow(achievements, last'.requested[1]) = NULL)
            => /\ last'.raised
               /\ last'.printed = <<>>
               /\ user_achievements' = user_achievements
      ]_vars

\* ------------------------------------------------------------------ C20
C20_IsPrefix(s, t) == Len(s) <= Len(t) /\ SubSeq(t, 1, Len(s)) = s

\* the rows of a table that belong to the entry of the given id
C20_RowsOf(table, id) == SelectSeq(table, LAMBDA r : r.entry_id = id)

\* C20: a save that passes the form checks leaves its entry, grade rows and
\* keyword links in the store whatever happens in the evaluation; the
\* evaluation runs once, with the new id, on the store that already holds
\* the entry.
C20_EntryCommittedBeforeEvaluation ==
    [][ (last'.op = "save_entry" /\ last'.evaluated) =>
            /\ last'.entry_id = entries_seq'
            /\ entries_seq' = entries_seq + 1
            /\ Len(entries') = Len(entries) + 1
            /\ SubSeq(entries', 1, Len(entries)) = entries
            /\ entries'[Len(entries')].id = last'.entry_id
            /\ C20_IsPrefix(entry_competencies, entry_competencies')
            /\ C20_RowsOf(entry_competencies', last'.entry_id) # <<>>
            /\ C20_RowsOf(entry_competencies, last'.entry_id) = <<>>
            /\ C20_IsPrefix(entry_keywords, entry_keywords')
            /\ C20_IsPrefix(last'.requested, Requested(entries', current_year'))
            /\ (~tx_aborted' => last'.requested = Requested(entries', current_year'))
      ]_vars

\* a save whose evaluation failed (save_entry showed the error box) and
\* whose entry, grade rows and keyword links are in the store
C20_Witness ==
    /\ last.op = "save_entry"
    /\ last.evaluated
    /\ ErrorBox("save") \in Range(last.shown)
    /\ \E i \in DOMAIN entries : entries[i].id = last.entry_id
    /\ C20_RowsOf(entry_competencies, last.entry_id) # <<>>
    /\ C20_RowsOf(entry_keywords, last.entry_id) # <<>>

\* ------------------------------------------------------------------ C21
\* the grade rows of an entry
C21_GradesOf(id) == SelectSeq(entry_competencies, LAMBDA r : r.entry_id = id)

\* C21: every entry carries at most 3 grade rows; a save_entry refused for
\* more than 3 ticked competencies shows the warning, writes no entry,
\* keyword or grade and runs no achievement evaluation.
C21_AtMostThreeGrades ==
    /\ [](\A i \in DOMAIN entries :
             Len(C21_GradesOf(entries[i].id)) <= MAX_SELECTED)
    /\ [][ (last'.op = "save_entry" /\ WarningBox("too_many") \in Range(last'.shown))
              => /\ last'.shown = << WarningBox("too_many") >>
                 /\ ~last'.evaluated
                 /\ UNCHANGED << entries, entries_seq, keywords, keywords_seq,
                                 entry_keywords, entry_competencies, user_achievements >>
       ]_vars

\* an entry with three grade rows is stored and a save with four ticked
\* competencies has just been refused
C21_Witness ==
    /\ last.op = "save_entry"
    /\ last.shown = << WarningBox("too_many") >>
    /\ \E i \in DOMAIN entries : Len(C21_GradesOf(entries[i].id)) = MAX_SELECTED

\* ------------------------------------------------------------------ C22
\* C22: however often the application is started on its database, the
\* catalog holds exactly the 5 achievements of achievements_data, each name
\* once.
C22_CatalogSeededOnce ==
    /\ Len(achievements) = Len(achievements_data)
    /\ \A k \in DOMAIN achievements_data :
          Cardinality({ i \in DOMAIN achievements :
                          achievements[i].name = achievements_data[k] }) = 1
    /\ \A i \in DOMAIN achievements :
          \E k \in DOMAIN achievements_data : achievements[i].name = achievements_data[k]

\* the application has just been started again, create_tables run on the
\* seeded catalog
C22_Witness ==
    /\ last.op = "startup"
    /\ loads >= 1
    /\ Len(achievements) = Len(achievements_data)

\* ------------------------------------------------------------------ C23
\* a load_competencies run (that of a new start included) that went through
C23_Loaded ==
    /\ last.op \in {"load_competencies", "startup"}
    /\ SuccessBox("competencies") \in Range(last.shown)

\* the ids of the rows of a competency list
C23_Ids(comps) == { comps[i].id : i \in DOMAIN comps }

\* C23: after a load_competencies that went through, the competencies table
\* holds exactly the list of the specialty loaded and self.competencies the
\* same ids; the table never holds rows of two loads together.
C23_OneActiveSet ==
    /\ \E specialty \in Specialties, seq \in 0..competencies_seq :
          competencies = LoadedCompetencies(specialty, seq)
    /\ C23_Ids(app_competencies) \subseteq C23_Ids(competencies)
    /\ C23_Loaded =>
          /\ [i \in DOMAIN competencies |->
                [name |-> competencies[i].name, category |-> competencies[i].category]]
             = specialties_data[last.specialty]
          /\ C23_Ids(app_competencies) = C23_Ids(competencies)
          /\ Len(app_competencies) = Len(competencies)
          /\ \A i \in DOMAIN competencies : competencies[i].id > competencies_seq - Len(competencies)

\* the second specialty has just been loaded over the four competencies of
\* the first
C23_Witness ==
    /\ C23_Loaded
    /\ last.specialty # FirstSpecialty
    /\ Len(competencies) = Len(specialties_data[last.specialty])
    /\ Len(competencies) < Len(specialties_data[FirstSpecialty])

\* ------------------------------------------------------------------ C27
\* C27: a load_competencies that goes through (that of a new start
\* included) removes every grade row and leaves the entries, the unlock
\* records and the goals as they were (a new start goes on to refresh the
\* goals); afterwards every competency's mean level is 0, weak_zones is empty
\* and every raise-competency goal is refreshed to current 0.
C27_LoadCascadesToGrades ==
    [][ (/\ last'.op \in {"load_competencies", "startup"}
         /\ SuccessBox("competencies") \in Range(last'.shown))
           => /\ entry_competencies' = <<>>
              /\ entries' = entries
              /\ user_achievements' = user_achievements
              /\ last'.op = "load_competencies" => goals' = goals
              /\ last'.op = "startup" =>
                    goals' = update_goals(goals, entries, competencies', <<>>).goals
              /\ competencies_text'.kind = "levels"
              /\ competencies_text'.weak_zones = <<>>
              /\ Len(competencies_text'.lines) = Len(competencies')
              /\ \A i \in DOMAIN competencies_text'.lines :
                    competencies_text'.lines[i].level = 0
              /\ \A i \in DOMAIN comp_data' : comp_data'[i].avg_level.n = 0
              /\ LET upd == update_goals(goals', entries', competencies',
                                         entry_competencies')
                 IN  \A i \in DOMAIN goals' :
                        goals'[i].type = RAISE_COMPETENCY
                           => (upd.goals[i].current = 0 /\ upd.text[i].current = 0)
      ]_vars

\* competencies have just been loaded over a graded entry: the entry and the
\* unlock record are there, the grade rows are gone, and a raise-competency
\* goal still shows what it was refreshed to before
C27_Witness ==
    /\ last.op = "load_competencies"
    /\ SuccessBox("competencies") \in Range(last.shown)
    /\ entries # <<>>
    /\ user_achievements # <<>>
    /\ entry_competencies = <<>>
    /\ \E i \in DOMAIN goals :
          goals[i].type = RAISE_COMPETENCY /\ goals[i].current > 0

\* ------------------------------------------------------------------ C28
\* C28: an unlock record, once stored, is there in every later state: no
\* handler removes a row of user_achievements, whether or not the
\* achievement's predicate still holds.
C28_UnlocksArePermanent ==
    [][ /\ Len(user_achievements') >= Len(user_achievements)
        /\ \A i \in DOMAIN user_achievements :
              user_achievements'[i] = user_achievements[i]
      ]_vars

\* the evaluation has just run on two entries, "Первый шаг" (count == 1)
\* unlocked before
C28_Witness ==
    /\ last.op = "save_entry"
    /\ last.evaluated
    /\ Len(entries) = 2
    /\ Unlocked("FirstStep")
    /\ "FirstStep" \notin Range(last.requested)

\* ------------------------------------------------------------------ C24
\* the token occurs in the name
C24_Has(token, name) ==
    \E i \in DOMAIN name, j \in DOMAIN name : i <= j /\ SubSeq(name, i, j) = token

\* C24: a competency of mean level strictly between 0 and 2 gets exactly one
\* message, chosen by the first token its name contains, programming before
\* database before presentation, the generic message when it contains none.
C24_CriticalMessageByPrecedence ==
    (recommendations_text # <<>> /\ comp_data # <<>>) =>
        \A k \in DOMAIN comp_data :
           LET mean == comp_data[k].avg_level
               name == comp_data[k].name
               about == { i \in DOMAIN recommendations_text :
                            recommendations_text[i].name = name }
               tier == IF C24_Has(<<"P", "G">>, name) THEN "CriticalProgramming"
                       ELSE IF C24_Has(<<"D", "B">>, name) THEN "CriticalDatabase"
                       ELSE IF C24_Has(<<"P", "Z">>, name) THEN "CriticalPresentation"
                       ELSE "CriticalGeneric"
           IN  (mean.n > 0 /\ mean.sum > 0 /\ mean.sum < 2 * mean.n)
                  => /\ Cardinality(about) = 1
                     /\ \A i \in about : recommendations_text[i].tier = tier

\* generate_recommendations has just answered names with two tokens, one
\* token and none, all at 1.5
C24_Witness ==
    /\ last.op = "generate_recommendations"
    /\ Len(comp_data) = 5
    /\ recommendations_text =
          << [tier |-> "CriticalProgramming", name |-> <<"P", "G", " ", "D", "B">>],
             [tier |-> "CriticalDatabase", name |-> <<"D", "B", " ", "P", "Z">>],
             [tier |-> "CriticalProgramming", name |-> <<"P", "Z", " ", "P", "G">>],
             [tier |-> "CriticalPresentation", name |-> <<"P", "Z">>],
             [tier |-> "CriticalGeneric", name |-> <<"N", "P">>] >>

\* ------------------------------------------------------------------ C25
\* C25: after update_competencies and after export_to_word the
\* recommendations block holds the messages generate_recommendations gives
\* for the aggregated list the levels block was built from.
C25_BlocksAreParallel ==
    (last.op \in {"update_competencies", "export_to_word"}
     /\ competencies_text.kind = "levels")
        => /\ competencies_text = LevelsText(CompData(competencies, entry_competencies))
           /\ recommendations_text
                 = generate_recommendations(CompData(competencies, entry_competencies))

\* ------------------------------------------------------------------ C30
\* the levels block and the recommendations block come from one run of
\* update_competencies
C30_OnePass ==
    /\ \/ last.op \in {"update_competencies", "load_competencies"}
       \/ last.op = "save_entry" /\ last.refreshed
    /\ competencies_text.kind = "levels"
    /\ comp_data # <<>>

\* C30: within one update_competencies pass a competency is listed in
\* weak_zones if and only if it gets a critical or a below-average
\* recommendation.
C30_WeakZonesAgreeWithRecommendations ==
    C30_OnePass =>
        \A k \in DOMAIN comp_data :
           (\E w \in DOMAIN competencies_text.weak_zones :
               competencies_text.weak_zones[w].name = comp_data[k].name)
           <=> (\E i \in DOMAIN recommendations_text :
                   /\ recommendations_text[i].name = comp_data[k].name
                   /\ recommendations_text[i].tier \in
                         {"CriticalProgramming", "CriticalDatabase",
                          "CriticalPresentation", "CriticalGeneric", "BelowAverage"})

\* ------------------------------------------------------------------ C29
\* C29: the current value of a raise-competency goal, as update_goals
\* computes, shows and stores it, is 0 or lies between 1 and 5; a
\* raise-competency goal of target above 5 is never marked completed.
C29_TargetAboveFiveNeverCompleted ==
    \A i \in DOMAIN goals :
       goals[i].type = RAISE_COMPETENCY =>
          /\ goals[i].current = 0 \/ goals[i].current \in 1..5
          /\ last.refreshed =>
                (goals_text[i].current = 0 \/ goals_text[i].current \in 10..50)
          /\ goals[i].target > 5 => ~goals[i].completed
          /\ (last.refreshed /\ goals[i].target > 5) => goals_text[i].status = "InProgress"

\* a raise-competency goal of target 6 has just been refreshed on a mean
\* level of 5: current 5, in progress
C29_Witness ==
    /\ last.refreshed
    /\ \E i \in DOMAIN goals :
          /\ goals[i].type = RAISE_COMPETENCY
          /\ goals[i].target = 6
          /\ goals_text[i].current = 50
          /\ goals[i].current = 5
          /\ ~goals[i].completed

\* ------------------------------------------------------------------ C26
\* C26: the raise-competency goal add_goal stores for a competency of the
\* active set is evaluated by update_goals against that competency: the name
\* taken from the stored description is the name the goal was added for
\* (the goals here are added for the first competency offered), brackets in
\* the name or not.
C26_GoalNameRoundTrip ==
    (/\ last.op = "add_goal"
     /\ last.refreshed
     /\ goals[Len(goals)].type = RAISE_COMPETENCY)
        => /\ GoalCompName(goals[Len(goals)].description) = app_competencies[1].name
           /\ last.lookups[Len(goals)] = << app_competencies[1].name >>

====
